---- MODULE Spec2Model ----
(***************************************************************************)
(* Station record extraction scripts of the DSI yearbook repository.       *)
(*                                                                         *)
(* Text is modelled character by character: a string is a sequence of      *)
(* one-character atoms, a page is the sequence of its raw lines, and every *)
(* regular expression of the scripts is a sequence of items interpreted by *)
(* a backtracking matcher with Python's priorities (leftmost start, greedy *)
(* unless lazy).  Non-ASCII letters are written as two-character atoms:    *)
(* "G~" is capital G with breve, "S~" capital S with cedilla, "I~" capital *)
(* dotted I, "i~" small dotless i.                                         *)
(***************************************************************************)
EXTENDS Integers, Sequences, FiniteSets, TLC

VARIABLES
    script,     \* which script is running
    pc,         \* position in the script's main routine
    year,       \* year of the input file being processed
    doc,        \* PDF handle: "none", "open" or "closed"
    page_count, \* number of pages of the open document
    pno,        \* index of the next page to load
    text,       \* raw lines of the page last loaded
    results,    \* in-memory list of records
    disk,       \* output files: name -> sequence of rows
    stdout,     \* sequence of printed or logged messages
    exc,        \* unhandled exception that ended the run, or None
    fileno,     \* number of input files taken from the listing so far
    seen,       \* set of (station_code, year) keys already handled
    loaded      \* number of pages loaded so far in the run

vars == <<script, pc, year, doc, page_count, pno, text, results, disk, stdout, exc,
          fileno, seen, loaded>>

None == "None"

(***************************************************************************)
(* Bounds of the model: a run loads at most MaxPages pages in all, a page   *)
(* has at most MaxLines lines, a directory listing at most MaxFiles files. *)
(***************************************************************************)
MaxPages == 2
MaxLines == 3
MaxFiles == 2
MaxDigits == 2

(***************************************************************************)
(* Characters and Python string methods.                                   *)
(***************************************************************************)
Digit == {"0", "1", "2", "3", "4", "5", "6", "7", "8", "9"}
\* letters in pairs (lower, upper); "c~" "g~" "o~" "s~" "u~" are the Turkish letters
LowerSeq == <<"a", "b", "c", "d", "e", "f", "g", "h", "i", "j", "k", "l", "m", "n", "o", "p",
              "q", "r", "s", "t", "u", "v", "w", "x", "y", "z", "c~", "g~", "o~", "s~", "u~">>
UpperSeq == <<"A", "B", "C", "D", "E", "F", "G", "H", "I", "J", "K", "L", "M", "N", "O", "P",
              "Q", "R", "S", "T", "U", "V", "W", "X", "Y", "Z", "C~", "G~", "O~", "S~", "U~">>
LowerLetter == {LowerSeq[k] : k \in 1..Len(LowerSeq)} \cup {"i~"}
UpperLetter == {UpperSeq[k] : k \in 1..Len(UpperSeq)} \cup {"I~"}
AsciiUpper == {UpperSeq[k] : k \in 1..26}
\* "deg" is the degree sign, "dq" the double quote
Punct == {".", ",", ":", "/", "-", "(", ")", "'", "deg", "dq", "3s"}
Space == {" "}
\* \s of a regular expression: blank and newline
WS == {" ", "\n"}
\* . of a regular expression: anything but newline
AnyChar == Digit \cup UpperLetter \cup LowerLetter \cup Punct \cup Space

DigitVal(c) ==
    CASE c = "0" -> 0 [] c = "1" -> 1 [] c = "2" -> 2 [] c = "3" -> 3
      [] c = "4" -> 4 [] c = "5" -> 5 [] c = "6" -> 6 [] c = "7" -> 7
      [] c = "8" -> 8 [] c = "9" -> 9

\* str.upper() on one character
UpperChar(c) ==
    IF c = "i~" THEN "I"
    ELSE IF \E k \in 1..Len(LowerSeq) : LowerSeq[k] = c
         THEN UpperSeq[CHOOSE k \in 1..Len(LowerSeq) : LowerSeq[k] = c]
         ELSE c

\* str.lower() on one character
LowerChar(c) ==
    IF c = "I~" THEN "i"
    ELSE IF \E k \in 1..Len(UpperSeq) : UpperSeq[k] = c
         THEN LowerSeq[CHOOSE k \in 1..Len(UpperSeq) : UpperSeq[k] = c]
         ELSE c

Upper(s) == [i \in 1..Len(s) |-> UpperChar(s[i])]
\* str.lower(): capital dotted I becomes i followed by a combining dot ("cdot")
RECURSIVE LowerExpand(_)
LowerExpand(s) ==
    IF s = <<>> THEN <<>>
    ELSE (IF Head(s) = "I~" THEN <<"i", "cdot">> ELSE <<LowerChar(Head(s))>>)
         \o LowerExpand(Tail(s))
Lower(s) ==
    IF \A i \in 1..Len(s) : s[i] # "I~" THEN [i \in 1..Len(s) |-> LowerChar(s[i])]
    ELSE LowerExpand(s)

\* the characters re.IGNORECASE treats as equal to c
CaseClass(c) ==
    IF c \in {"i", "I", "i~", "I~"} THEN {"i", "I", "i~", "I~"}
    ELSE {c, UpperChar(c), LowerChar(c)}

IgnoreCase(cs) == UNION {CaseClass(c) : c \in cs}

RECURSIVE LStrip(_)
LStrip(s) == IF s # <<>> /\ Head(s) \in WS THEN LStrip(Tail(s)) ELSE s

RECURSIVE RStrip(_)
RStrip(s) ==
    IF s # <<>> /\ s[Len(s)] \in WS THEN RStrip(SubSeq(s, 1, Len(s) - 1)) ELSE s

\* str.strip()
Strip(s) == RStrip(LStrip(s))

\* str.replace(old, new) for single characters
Replace(s, old, new) == [i \in 1..Len(s) |-> IF s[i] = old THEN new ELSE s[i]]

\* needle in s
Contains(s, needle) ==
    \E i \in 1..(Len(s) - Len(needle) + 1) : \A k \in 1..Len(needle) : s[i + k - 1] = needle[k]

StartsWith(s, prefix) ==
    Len(s) >= Len(prefix) /\ SubSeq(s, 1, Len(prefix)) = prefix

\* [ln.strip() for ln in text.splitlines() if ln.strip()]
StrippedLines(t) == SelectSeq([i \in 1..Len(t) |-> Strip(t[i])], LAMBDA ln : ln # <<>>)

Min(a, b) == IF a < b THEN a ELSE b

(***************************************************************************)
(* float(): a decimal literal of digits with at most one dot and at least  *)
(* one digit; anything else raises ValueError.  The value is kept exactly, *)
(* as mantissa m and number of decimals e with no trailing zero decimal.   *)
(***************************************************************************)
ValueError == "ValueError"
TypeError == "TypeError"

CountOf(s, c) == Cardinality({i \in 1..Len(s) : s[i] = c})

RECURSIVE DigitsToNat(_)
DigitsToNat(s) ==
    IF s = <<>> THEN 0
    ELSE 10 * DigitsToNat(SubSeq(s, 1, Len(s) - 1)) + DigitVal(s[Len(s)])

RECURSIVE Normal(_, _)
Normal(m, e) == IF e > 0 /\ m % 10 = 0 THEN Normal(m \div 10, e - 1) ELSE [m |-> m, e |-> e]

FloatOk(s) ==
    /\ \A i \in 1..Len(s) : s[i] \in Digit \cup {"."}
    /\ CountOf(s, ".") <= 1
    /\ \E i \in 1..Len(s) : s[i] \in Digit

\* a Python value that is not a string: a float, None, or a raised exception
NoneVal == [none |-> TRUE]
Raised(e) == [raised |-> e]
IsFloat(v) == DOMAIN v = {"m", "e"}

PyFloat(s) ==
    IF ~FloatOk(s) THEN Raised(ValueError)
    ELSE LET ds  == SelectSeq(s, LAMBDA c : c \in Digit)
             dec == IF CountOf(s, ".") = 0 THEN 0
                    ELSE Len(s) - (CHOOSE i \in 1..Len(s) : s[i] = ".")
         IN  Normal(DigitsToNat(ds), dec)

Zero == [m |-> 0, e |-> 0]

(***************************************************************************)
(* Regular expressions.  An item matches between lo and hi characters of   *)
(* the set cs (any number from lo up when unb), and belongs to capture     *)
(* group grp (0: none).                                                    *)
(***************************************************************************)
Item(cs, lo, hi, unb, lazy, grp) ==
    [cs |-> cs, lo |-> lo, hi |-> hi, unb |-> unb, lazy |-> lazy, grp |-> grp]

One(cs, grp)      == Item(cs, 1, 1, FALSE, FALSE, grp)
Rep(cs, n, grp)   == Item(cs, n, n, FALSE, FALSE, grp)
Opt(cs, grp)      == Item(cs, 0, 1, FALSE, FALSE, grp)
Plus(cs, grp)     == Item(cs, 1, 1, TRUE, FALSE, grp)
Star(cs, grp)     == Item(cs, 0, 0, TRUE, FALSE, grp)
LazyStar(cs, grp) == Item(cs, 0, 0, TRUE, TRUE, grp)

\* a literal string, one item per character
Lit(s) == [i \in 1..Len(s) |-> One({s[i]}, 0)]
\* the same under re.IGNORECASE
LitI(s) == [i \in 1..Len(s) |-> One(CaseClass(s[i]), 0)]

RECURSIVE Run(_, _, _)
Run(s, i, cs) == IF i <= Len(s) /\ s[i] \in cs THEN 1 + Run(s, i + 1, cs) ELSE 0

\* the result of a failed match; a successful one is the sequence of positions
\* where each item of the pattern ends
Fail == <<0>>

SetMin(S) == CHOOSE x \in S : \A y \in S : x <= y
SetMax(S) == CHOOSE x \in S : \A y \in S : x >= y

\* of the repetition counts c whose rest r matches, the largest (greedy) or the
\* smallest (lazy): R is the set of pairs <<c, r>>, i the position of the item
PickCount(R, lazy, i) ==
    LET good == {p \in R : p[2] # Fail}
        best == CHOOSE p \in good : \A q \in good : IF lazy THEN p[1] <= q[1] ELSE p[1] >= q[1]
    IN  IF good = {} THEN Fail ELSE <<i + best[1]>> \o best[2]

RECURSIVE MatchFrom(_, _, _, _)
\* match items k.. of pat at position i of s, backtracking over the repetition counts
MatchFrom(pat, k, s, i) ==
    IF k > Len(pat) THEN <<>>
    ELSE LET avail == Run(s, i, pat[k].cs)
             mx    == IF pat[k].unb THEN avail ELSE Min(avail, pat[k].hi)
         IN  IF mx < pat[k].lo THEN Fail
             ELSE PickCount({<<c, MatchFrom(pat, k + 1, s, i + c)>> : c \in pat[k].lo..mx},
                            pat[k].lazy, i)

MatchResult(r, start) ==
    IF r = Fail THEN [ok |-> FALSE, start |-> 0, ends |-> <<>>]
    ELSE [ok |-> TRUE, start |-> start, ends |-> r]

\* re.match(pat, s)
ReMatch(pat, s) == MatchResult(MatchFrom(pat, 1, s, 1), 1)

\* of the pairs <<start, r>>, the match with the leftmost start
Leftmost(R) ==
    LET good == {p \in R : p[2] # Fail}
        best == CHOOSE p \in good : \A q \in good : p[1] <= q[1]
    IN  IF good = {} THEN MatchResult(Fail, 0) ELSE MatchResult(best[2], best[1])

\* leftmost match starting at position i or later
SearchFrom(pat, s, i) ==
    Leftmost({<<j, MatchFrom(pat, 1, s, j)>> :
                j \in {j \in i..(Len(s) + 1) :
                         pat[1].lo = 0 \/ (j <= Len(s) /\ s[j] \in pat[1].cs)}})

\* re.search(pat, s)
ReSearch(pat, s) == SearchFrom(pat, s, 1)

\* m.group(g)
Group(pat, s, m, g) ==
    LET ks    == {k \in 1..Len(pat) : pat[k].grp = g}
        first == CHOOSE k \in ks : \A j \in ks : k <= j
        last  == CHOOSE k \in ks : \A j \in ks : k >= j
        from  == IF first = 1 THEN m.start ELSE m.ends[first - 1]
    IN  SubSeq(s, from, m.ends[last] - 1)

\* position after the whole match
MatchEnd(pat, m) == IF Len(pat) = 0 THEN m.start ELSE m.ends[Len(pat)]

\* re.findall of a pattern that cannot match the empty string
RECURSIVE FindAllFrom(_, _, _)
FindAllFrom(pat, s, i) ==
    LET m == SearchFrom(pat, s, i)
    IN  IF ~m.ok THEN <<>>
        ELSE <<SubSeq(s, m.start, MatchEnd(pat, m) - 1)>> \o FindAllFrom(pat, s, MatchEnd(pat, m))

FindAll(pat, s) == FindAllFrom(pat, s, 1)

\* re.findall of a pattern with one group: the group of every match
RECURSIVE FindAllGroupFrom(_, _, _)
FindAllGroupFrom(pat, s, i) ==
    LET m == SearchFrom(pat, s, i)
    IN  IF ~m.ok THEN <<>>
        ELSE <<Group(pat, s, m, 1)>> \o FindAllGroupFrom(pat, s, MatchEnd(pat, m))

FindAllGroup(pat, s) == FindAllGroupFrom(pat, s, 1)

\* an alternation p1|p2|...: at each start the first alternative that matches;
\* R is the set of triples <<start, alternative, r>>
FirstAlt(R) ==
    LET good == {p \in R : p[3] # Fail}
        best == CHOOSE p \in good :
                    \A q \in good : p[1] < q[1] \/ (p[1] = q[1] /\ p[2] <= q[2])
    IN  IF good = {} THEN [ok |-> FALSE, start |-> 0, stop |-> 0, alt |-> 0, ends |-> <<>>]
        ELSE [ok |-> TRUE, start |-> best[1], alt |-> best[2], ends |-> best[3],
              stop |-> IF best[3] = <<>> THEN best[1] ELSE best[3][Len(best[3])]]

SearchAltFrom(alts, s, i) ==
    FirstAlt({<<j, a, MatchFrom(alts[a], 1, s, j)>> :
                j \in i..(Len(s) + 1), a \in 1..Len(alts)})

RECURSIVE FindAllAltFrom(_, _, _)
FindAllAltFrom(alts, s, i) ==
    LET m == SearchAltFrom(alts, s, i)
    IN  IF ~m.ok THEN <<>>
        ELSE <<SubSeq(s, m.start, m.stop - 1)>> \o FindAllAltFrom(alts, s, m.stop)

FindAllAlt(alts, s) == FindAllAltFrom(alts, s, 1)

\* s.replace(sub, '') for a non-empty sub
RECURSIVE RemoveAll(_, _)
RemoveAll(s, sub) ==
    IF Len(s) < Len(sub) THEN s
    ELSE IF SubSeq(s, 1, Len(sub)) = sub THEN RemoveAll(SubSeq(s, Len(sub) + 1, Len(s)), sub)
    ELSE <<Head(s)>> \o RemoveAll(Tail(s), sub)

\* '\n'.join(lines)
RECURSIVE JoinLines(_)
JoinLines(t) ==
    IF t = <<>> THEN <<>>
    ELSE IF Len(t) = 1 THEN t[1]
    ELSE t[1] \o <<"\n">> \o JoinLines(Tail(t))

\* str(n) for a natural number
RECURSIVE NatStr(_)
NatStr(n) ==
    LET d == <<"0", "1", "2", "3", "4", "5", "6", "7", "8", "9">>[(n % 10) + 1]
    IN  IF n < 10 THEN <<d>> ELSE Append(NatStr(n \div 10), d)

\* a text value of a record field
Text(s) == [str |-> s]
IsNone(v) == "none" \in DOMAIN v
\* Python truth of an optional float or text
Falsy(v) == IsNone(v) \/ (IsFloat(v) /\ v.m = 0) \/ ("str" \in DOMAIN v /\ v.str = <<>>)

(***************************************************************************)
(* Words and lines of the yearbook pages used as inputs.                   *)
(***************************************************************************)
Sp(a, b) == a \o <<" ">> \o b

wYAGIS_ALANI  == <<"Y", "A", "G~", "I", "S~", " ", "A", "L", "A", "N", "I">>
wYAGIS_ascii  == <<"Y", "A", "G", "I", "S", " ", "A", "L", "A", "N", "I">>
wYAKLASIK_KOT == <<"Y", "A", "K", "L", "A", "S~", "I", "K", " ", "K", "O", "T">>
wkm2          == <<"k", "m", "2">>

codeD22A093 == <<"D", "2", "2", "A", "0", "9", "3">>
codeE22A065 == <<"E", "2", "2", "A", "0", "6", "5">>
codeD14A999 == <<"D", "1", "4", "A", "9", "9", "9">>

\* "D22A093 T K", "E22A065 X": station lines of two target stations
lineStationA == Sp(Sp(codeD22A093, <<"T">>), <<"K">>)
lineStationB == Sp(codeE22A065, <<"X">>)
\* "D14A999 X": a station line of a station outside every target set
lineStationOther == Sp(codeD14A999, <<"X">>)
\* "D22A093": the code with nothing after it
lineCodeOnly == codeD22A093
\* "YAGIS ALANI : 210,00 km2 YAKLASIK KOT : 404 m" (with the Turkish letters)
lineArea == Sp(Sp(Sp(Sp(Sp(Sp(Sp(wYAGIS_ALANI, <<":">>), <<"2", "1", "0", ",", "0", "0">>), wkm2),
                 wYAKLASIK_KOT), <<":">>), <<"4", "0", "4">>), <<"m">>)
\* "YAGIS ALANI : 1.210,00 km2": an area written with a thousands separator
lineAreaThousands == Sp(Sp(Sp(wYAGIS_ALANI, <<":">>), <<"1", ".", "2", "1", "0", ",", "0", "0">>), wkm2)
\* "YAGIS ALANI : - km2": an area line without a number
lineAreaNoNumber == Sp(Sp(Sp(wYAGIS_ALANI, <<":">>), <<"-">>), wkm2)
lineBlank == <<" ">>

\* every page of at most MaxLines lines over a set of lines
PagesOver(lib) == UNION {[1..n -> lib] : n \in 0..MaxLines}

Years == {2019, 2020}

(***************************************************************************)
(* catchment_data_km2.py                                                   *)
(***************************************************************************)
TARGET_STATIONS == {
    <<"E", "2", "2", "A", "0", "6", "5">>,
    <<"E", "2", "2", "A", "0", "6", "6">>,
    <<"D", "2", "2", "A", "0", "9", "3">>,
    <<"E", "2", "2", "A", "0", "7", "1">>,
    <<"D", "1", "4", "A", "1", "8", "5">>,
    <<"E", "2", "2", "A", "0", "5", "4">>,
    <<"E", "2", "2", "A", "0", "6", "3">>,
    <<"E", "1", "4", "A", "0", "1", "8">>,
    <<"D", "1", "4", "A", "1", "6", "2">>,
    <<"D", "1", "4", "A", "1", "8", "6">>,
    <<"D", "2", "2", "A", "1", "0", "5">>,
    <<"E", "2", "2", "A", "0", "5", "3">>,
    <<"D", "1", "4", "A", "1", "7", "2">>,
    <<"D", "1", "4", "A", "1", "1", "7">>,
    <<"E", "1", "4", "A", "0", "2", "7">>,
    <<"D", "2", "2", "A", "1", "0", "6">>,
    <<"D", "1", "4", "A", "2", "0", "0">>,
    <<"E", "1", "4", "A", "0", "0", "2">>,
    <<"D", "1", "4", "A", "1", "7", "9">>,
    <<"D", "2", "2", "A", "0", "9", "8">>,
    <<"D", "2", "2", "A", "1", "5", "9">>,
    <<"D", "1", "4", "A", "0", "6", "4">>,
    <<"E", "1", "4", "A", "0", "3", "8">>,
    <<"D", "1", "4", "A", "2", "0", "1">>,
    <<"D", "1", "4", "A", "1", "8", "4">>,
    <<"D", "1", "4", "A", "2", "1", "1">>,
    <<"D", "1", "4", "A", "2", "0", "8">>,
    <<"D", "1", "4", "A", "2", "1", "4">>,
    <<"D", "1", "4", "A", "2", "0", "7">>,
    <<"D", "1", "4", "A", "1", "4", "1">>,
    <<"E", "2", "2", "A", "0", "6", "2">>,
    <<"E", "1", "4", "A", "0", "4", "0">>,
    <<"D", "1", "4", "A", "2", "1", "5">>,
    <<"D", "1", "4", "A", "1", "7", "6">>,
    <<"D", "1", "4", "A", "0", "1", "1">>,
    <<"D", "1", "4", "A", "1", "8", "8">>,
    <<"D", "1", "4", "A", "0", "8", "1">>
}
\* r"^([DE]\d{2}A\d{3})\s"
StationLinePat ==
    <<One({"D", "E"}, 1), Rep(Digit, 2, 1), One({"A"}, 1), Rep(Digit, 3, 1), One(WS, 0)>>

\* r"YA[GG~]I[SS~]\s*ALANI\s*:\s*([0-9\.,]+)", flags=re.I
CatchAreaPat ==
    LitI(<<"Y", "A">>) \o <<One(IgnoreCase({"G", "G~"}), 0)>> \o LitI(<<"I">>)
    \o <<One(IgnoreCase({"S", "S~"}), 0), Star(WS, 0)>> \o LitI(<<"A", "L", "A", "N", "I">>)
    \o <<Star(WS, 0), One({":"}, 0), Star(WS, 0), Plus(Digit \cup {".", ","}, 1)>>

\* clean_num of catchment_data_km2.py: a float, or ValueError raised
catch_clean_num(x) == PyFloat(Replace(Strip(x), ",", "."))

\* index of the first line j in i..min(i+10, len)-1 that holds the area label, or 0
RECURSIVE CatchAreaLine(_, _, _)
CatchAreaLine(lines, j, last) ==
    IF j > last THEN 0
    ELSE IF Contains(Upper(lines[j]), wYAGIS_ALANI) \/ Contains(Upper(lines[j]), wYAGIS_ascii)
         THEN j
         ELSE CatchAreaLine(lines, j + 1, last)

\* the body of the loop over the lines of one page, from line i on:
\* the records appended, and the exception raised if any
RECURSIVE CatchScanLines(_, _, _)
CatchScanLines(lines, i, p) ==
    IF i > Len(lines) THEN [recs |-> <<>>, exc |-> None]
    ELSE LET m    == ReMatch(StationLinePat, lines[i])
             code == Upper(Group(StationLinePat, lines[i], m, 1))
             j    == CatchAreaLine(lines, i, Min(i + 9, Len(lines)))
             am   == ReSearch(CatchAreaPat, lines[j])
             val  == catch_clean_num(Group(CatchAreaPat, lines[j], am, 1))
             rest == CatchScanLines(lines, i + 1, p)
         IN  IF ~m.ok THEN rest
             ELSE IF code \notin TARGET_STATIONS THEN rest
             ELSE IF j = 0 THEN rest
             ELSE IF ~am.ok THEN rest
             ELSE IF ~IsFloat(val) THEN [recs |-> <<>>, exc |-> val.raised]
             ELSE [recs |-> <<[station_code |-> code, catchment_area_km2 |-> val,
                               page |-> p + 1]>> \o rest.recs,
                   exc  |-> rest.exc]

CatchPages == PagesOver({lineStationA, lineStationOther, lineCodeOnly, lineArea,
                         lineAreaThousands})

\* what the line loop does on every page of the inputs (page numbers filled in later)
CatchTable == {[t |-> t, r |-> CatchScanLines(StrippedLines(t), 1, 0)] : t \in CatchPages}

CatchOutputName(y) == <<"dsi_", y, "_catchment_areas.csv">>

InitCatch ==
    /\ script = "catchment_data_km2"
    /\ pc = "main"
    /\ year \in Years
    /\ doc = "none"
    /\ page_count = 0
    /\ pno = 0
    /\ text = <<>>
    /\ results = <<>>
    /\ disk = <<>>
    /\ stdout = <<>>
    /\ exc = None
    /\ fileno = 0
    /\ seen = {}
    /\ loaded = 0

\* __main__: the PDF does not exist
CatchMissing ==
    /\ script = "catchment_data_km2" /\ pc = "main"
    /\ stdout' = Append(stdout, "ERROR not found")
    /\ pc' = "done"
    /\ UNCHANGED <<script, year, doc, page_count, pno, text, results, disk, exc, fileno, seen, loaded>>

\* __main__ calls extract_catchments: fitz.open, results = []
CatchOpen ==
    /\ script = "catchment_data_km2" /\ pc = "main"
    /\ \E n \in 0..MaxPages : page_count' = n
    /\ doc' = "open"
    /\ pno' = 0
    /\ results' = <<>>
    /\ pc' = "pages"
    /\ UNCHANGED <<script, year, text, disk, stdout, exc, fileno, seen, loaded>>

\* one iteration of the page loop of extract_catchments
CatchPage ==
    /\ script = "catchment_data_km2" /\ pc = "pages" /\ pno < page_count
    /\ \E e \in CatchTable :
         LET recs == [k \in 1..Len(e.r.recs) |-> [e.r.recs[k] EXCEPT !.page = pno + 1]]
         IN  /\ text' = e.t
             /\ IF e.r.exc # None
                THEN /\ exc' = e.r.exc
                     /\ pc' = "raised"
                     /\ UNCHANGED <<results, stdout>>
                ELSE /\ results' = results \o recs
                     /\ stdout' = stdout \o [k \in 1..Len(recs) |-> "FOUND"]
                     /\ pc' = "next"
                     /\ exc' = None
    /\ loaded' = loaded + 1
    /\ UNCHANGED <<script, year, doc, page_count, pno, disk, fileno, seen>>

\* the loop moves on to the next page
CatchNext ==
    /\ script = "catchment_data_km2" /\ pc = "next"
    /\ pno' = pno + 1
    /\ text' = <<>>
    /\ pc' = "pages"
    /\ UNCHANGED <<script, year, doc, page_count, results, disk, stdout, exc, fileno, seen, loaded>>

\* end of the loop: doc.close(), return the DataFrame
CatchClose ==
    /\ script = "catchment_data_km2" /\ pc = "pages" /\ pno = page_count
    /\ doc' = "closed"
    /\ pc' = "emit"
    /\ UNCHANGED <<script, year, page_count, pno, text, results, disk, stdout, exc, fileno, seen, loaded>>

\* an emit step that writes the file whether or not there are records
CatchEmit_always ==
    /\ script = "catchment_data_km2" /\ pc = "emit"
    /\ disk' = (CatchOutputName(year) :>
                  [header |-> <<"station_code", "catchment_area_km2", "page">>,
                   rows   |-> results]) @@ disk
    /\ stdout' = Append(stdout, "DONE")
    /\ pc' = "done"
    /\ UNCHANGED <<script, year, doc, page_count, pno, text, results, exc, fileno, seen, loaded>>

\* __main__: warn on an empty frame, else df.to_csv(OUTPUT_NAME)
CatchEmit ==
    /\ script = "catchment_data_km2" /\ pc = "emit"
    /\ IF results = <<>>
       THEN /\ stdout' = Append(stdout, "WARN no records")
            /\ disk' = disk
       ELSE /\ disk' = (CatchOutputName(year) :>
                          [header |-> <<"station_code", "catchment_area_km2", "page">>,
                           rows   |-> results]) @@ disk
            /\ stdout' = Append(stdout, "DONE")
    /\ pc' = "done"
    /\ UNCHANGED <<script, year, doc, page_count, pno, text, results, exc, fileno, seen, loaded>>

NextCatch == CatchMissing \/ CatchOpen \/ CatchPage \/ CatchNext \/ CatchClose \/ CatchEmit

(***************************************************************************)
(* dsi_final_structured_extractor.py: class DSIFinalExtractor              *)
(***************************************************************************)
target_stations == {
    <<"D", "1", "4", "A", "0", "1", "1">>,
    <<"D", "1", "4", "A", "1", "1", "7">>,
    <<"D", "1", "4", "A", "1", "4", "4">>,
    <<"D", "1", "4", "A", "1", "4", "6">>,
    <<"D", "1", "4", "A", "1", "4", "9">>,
    <<"D", "1", "4", "A", "1", "6", "2">>,
    <<"D", "1", "4", "A", "1", "7", "2">>,
    <<"D", "1", "4", "A", "1", "9", "2">>,
    <<"D", "1", "4", "A", "0", "1", "8">>,
    <<"D", "2", "2", "A", "0", "9", "3">>,
    <<"D", "2", "2", "A", "0", "9", "5">>,
    <<"D", "2", "2", "A", "1", "0", "5">>,
    <<"D", "2", "2", "A", "1", "0", "6">>,
    <<"D", "2", "2", "A", "1", "5", "8">>,
    <<"E", "2", "2", "A", "0", "5", "4">>,
    <<"D", "2", "2", "A", "1", "1", "6">>,
    <<"E", "2", "2", "A", "0", "6", "5">>
}
months == <<"oct", "nov", "dec", "jan", "feb", "mar", "apr", "may", "jun", "jul", "aug", "sep">>
metrics == <<"flow_max", "flow_min", "flow_avg", "ltsnkm2", "akim_mm", "milm3">>

metric_keywords(metric) ==
    CASE metric = "flow_max" -> {<<"M", "a", "k", "s", ".">>, <<"M", "A", "K", "S", ".">>}
      [] metric = "flow_min" -> {<<"M", "i", "n", ".">>, <<"M", "I", "N", ".">>}
      [] metric = "flow_avg" -> {<<"O", "r", "t", "a", "l", "a", "m", "a">>,
                                 <<"O", "R", "T", "A", "L", "A", "M", "A">>}
      [] metric = "ltsnkm2"  -> {<<"L", "T", "/", "S", "N", "/", "K", "m", "2">>,
                                 <<"L", "T", "/", "S", "N", "/", "K", "M", "2">>}
      [] metric = "akim_mm"  -> {<<"A", "K", "I", "M", " ", "m", "m", ".">>,
                                 <<"A", "K", "I", "M", " ", "M", "M", ".">>}
      [] metric = "milm3"    -> {<<"M", "I~", "L", ".", " ", "M", "3">>,
                                 <<"M", "I", "L", ".", " ", "M", "3">>}

\* the header row _initialize_csv writes: 11 metadata columns, then metric by metric
FinalHeaders ==
    <<"file", "page", "year", "station_code", "station_name", "coordinates",
      "catchment_area_km2", "annual_avg_flow_m3s", "annual_total_m3", "mm_total",
      "avg_ltsnkm2">>
    \o [k \in 1..72 |-> months[((k - 1) % 12) + 1] \o "_" \o metrics[((k - 1) \div 12) + 1] \o "_m3"]

FinalOutput == "dsi_2000_2020_final_structured.csv"

RemoveChar(s, c) == SelectSeq(s, LAMBDA d : d # c)

_normalize_number(t) ==
    IF Strip(t) = <<>> THEN NoneVal
    ELSE LET u       == RemoveChar(Replace(Strip(t), ",", "."), " ")
             numbers == FindAll(<<Plus(Digit \cup {"."}, 0)>>, u)
         IN  IF numbers = <<>> THEN NoneVal
             ELSE IF IsFloat(PyFloat(numbers[1])) THEN PyFloat(numbers[1])
             ELSE NoneVal

\* r'[A-Z]\d{2}[A-Z]\d{3}'
StationCodePat ==
    <<One(AsciiUpper, 0), Rep(Digit, 2, 0), One(AsciiUpper, 0), Rep(Digit, 3, 0)>>

\* the first station code in the text, or <<>> for None
_extract_station_code(t) ==
    LET matches == FindAll(StationCodePat, t)
    IN  IF matches # <<>> THEN matches[1] ELSE <<>>

\* r'\d+deg\d+\'\d+"\s*(?:Dogu|Kuzey|DOGU|KUZEY)', re.IGNORECASE
CoordPrefix ==
    <<Plus(Digit, 0), One({"deg"}, 0), Plus(Digit, 0), One({"'"}, 0), Plus(Digit, 0),
      One({"dq"}, 0), Star(WS, 0)>>
CoordAlts ==
    <<CoordPrefix \o LitI(<<"D", "o", "g~", "u">>),
      CoordPrefix \o LitI(<<"K", "u", "z", "e", "y">>)>>

_extract_coordinates(t) ==
    LET matches == FindAllAlt(CoordAlts, t)
    IN  IF Len(matches) >= 2 THEN Text(matches[1] \o <<" ">> \o matches[2]) ELSE NoneVal

_extract_catchment_area(t) ==
    IF Contains(t, wYAGIS_ALANI) \/ Contains(t, <<"Y", "A", "G~", "I", "S", " ", "A", "L", "A", "N", "I">>)
    THEN _normalize_number(t)
    ELSE NoneVal

\* rf'{year}\s*Su\s*yilinda.*?(\d+[.,]\d+)\s*m3/sn', re.IGNORECASE
AnnualAvgPat(y) ==
    Lit(NatStr(y)) \o <<Star(WS, 0)>> \o LitI(<<"S", "u">>) \o <<Star(WS, 0)>>
    \o LitI(<<"y", "i~", "l", "i~", "n", "d", "a">>)
    \o <<LazyStar(AnyChar, 0), Plus(Digit, 1), One({".", ","}, 1), Plus(Digit, 1), Star(WS, 0)>>
    \o LitI(<<"m", "3", "/", "s", "n">>)

_extract_annual_avg_flow(t, y) ==
    LET matches == FindAllGroup(AnnualAvgPat(y), t)
    IN  IF matches # <<>> THEN _normalize_number(matches[1]) ELSE NoneVal

\* the first metric whose keyword occurs in the line, or None
RECURSIVE FinalMetricFrom(_, _)
FinalMetricFrom(line, k) ==
    IF k > Len(metrics) THEN None
    ELSE IF \E kw \in metric_keywords(metrics[k]) : Contains(line, kw) THEN metrics[k]
    ELSE FinalMetricFrom(line, k + 1)

EmptyMonthly == [mt \in {} |-> <<>>]

\* the loop over the lines of _extract_monthly_data_structured:
\* metric -> the 12 values of the last line of that metric that has 12 numbers
RECURSIVE FinalMonthlyFrom(_, _, _)
FinalMonthlyFrom(lines, i, monthly_data) ==
    IF i > Len(lines) THEN monthly_data
    ELSE LET current_metric == FinalMetricFrom(lines[i], 1)
             numbers        == FindAll(<<Plus(Digit \cup {".", ","}, 0)>>, lines[i])
         IN  IF current_metric = None \/ Len(numbers) < 12
             THEN FinalMonthlyFrom(lines, i + 1, monthly_data)
             ELSE FinalMonthlyFrom(lines, i + 1,
                     (current_metric :> [j \in 1..12 |-> _normalize_number(numbers[j])])
                     @@ monthly_data)

_extract_monthly_data_structured(t) == FinalMonthlyFrom(t, 1, EmptyMonthly)

\* r'SU\s*YILI.*?YILLIK\s*TOPLAM\s*AKIM.*?(\d+[.,]\d+)\s*MILYON\s*M3', re.IGNORECASE
AnnualTotalPat ==
    LitI(<<"S", "U">>) \o <<Star(WS, 0)>> \o LitI(<<"Y", "I", "L", "I">>)
    \o <<LazyStar(AnyChar, 0)>> \o LitI(<<"Y", "I", "L", "L", "I", "K">>) \o <<Star(WS, 0)>>
    \o LitI(<<"T", "O", "P", "L", "A", "M">>) \o <<Star(WS, 0)>> \o LitI(<<"A", "K", "I", "M">>)
    \o <<LazyStar(AnyChar, 0), Plus(Digit, 1), One({".", ","}, 1), Plus(Digit, 1), Star(WS, 0)>>
    \o LitI(<<"M", "I~", "L", "Y", "O", "N">>) \o <<Star(WS, 0)>> \o LitI(<<"M", "3">>)

\* r'(\d+[.,]?\d*)\s*MM\.'
MmTotalPat ==
    <<Plus(Digit, 1), Opt({".", ","}, 1), Star(Digit, 1), Star(WS, 0)>> \o Lit(<<"M", "M", ".">>)

\* r'(\d+[.,]?\d*)\s*LT/SN/Km2'
LtsnPat ==
    <<Plus(Digit, 1), Opt({".", ","}, 1), Star(Digit, 1), Star(WS, 0)>>
    \o Lit(<<"L", "T", "/", "S", "N", "/", "K", "m", "2">>)

_extract_annual_totals(page_text) ==
    LET matches         == FindAllGroup(AnnualTotalPat, page_text)
        mm_matches      == FindAllGroup(MmTotalPat, page_text)
        ltsnkm2_matches == FindAllGroup(LtsnPat, page_text)
    IN  [annual_total |-> IF matches # <<>> THEN _normalize_number(matches[1]) ELSE NoneVal,
         mm_total     |-> IF mm_matches # <<>>
                          THEN _normalize_number(mm_matches[Len(mm_matches)]) ELSE NoneVal,
         avg_ltsnkm2  |-> IF ltsnkm2_matches # <<>>
                          THEN _normalize_number(ltsnkm2_matches[Len(ltsnkm2_matches)])
                          ELSE NoneVal]

\* a locator that gives up at the first examined row whose code is not a target
RECURSIVE FinalLocate_stop(_, _)
FinalLocate_stop(lines, i) ==
    IF i > Min(20, Len(lines)) THEN [station_code |-> <<>>, station_name |-> NoneVal]
    ELSE LET code      == _extract_station_code(lines[i])
             name_part == Strip(RemoveAll(lines[i], code))
         IN  IF code # <<>> /\ code \in target_stations
             THEN [station_code |-> code,
                   station_name |-> IF name_part # <<>> THEN Text(name_part) ELSE NoneVal]
             ELSE IF code # <<>> THEN [station_code |-> <<>>, station_name |-> NoneVal]
             ELSE FinalLocate_stop(lines, i + 2)

\* the station loop: rows 0, 2, 4, ... of the first 20 lines (i is 1-based here)
RECURSIVE FinalLocate(_, _)
FinalLocate(lines, i) ==
    IF i > Min(20, Len(lines)) THEN [station_code |-> <<>>, station_name |-> NoneVal]
    ELSE LET code      == _extract_station_code(lines[i])
             name_part == Strip(RemoveAll(lines[i], code))
         IN  IF code # <<>> /\ code \in target_stations
             THEN [station_code |-> code,
                   station_name |-> IF name_part # <<>> THEN Text(name_part) ELSE NoneVal]
             ELSE FinalLocate(lines, i + 2)

\* the loop "for line in lines" that fills the three header fields
RECURSIVE FinalHeaderFields(_, _, _, _)
FinalHeaderFields(lines, i, y, acc) ==
    IF i > Len(lines) THEN acc
    ELSE FinalHeaderFields(lines, i + 1, y,
            [coordinates     |-> IF Falsy(acc.coordinates)
                                 THEN _extract_coordinates(lines[i]) ELSE acc.coordinates,
             catchment_area  |-> IF Falsy(acc.catchment_area)
                                 THEN _extract_catchment_area(lines[i]) ELSE acc.catchment_area,
             annual_avg_flow |-> IF Falsy(acc.annual_avg_flow)
                                 THEN _extract_annual_avg_flow(lines[i], y)
                                 ELSE acc.annual_avg_flow])

NA == Text(<<"N", "/", "A">>)

\* the record of one page, or NoneVal; t is the page text split at newlines
_extract_station_data_structured(t, page_num, filename, y) ==
    LET loc     == FinalLocate(t, 1)
        head    == FinalHeaderFields(t, 1, y, [coordinates |-> NoneVal,
                                               catchment_area |-> NoneVal,
                                               annual_avg_flow |-> NoneVal])
        monthly == _extract_monthly_data_structured(t)
        totals  == _extract_annual_totals(JoinLines(t))
    IN  IF loc.station_code = <<>> THEN NoneVal
        ELSE [file |-> filename, page |-> page_num, year |-> y,
              station_code |-> loc.station_code,
              station_name |-> IF Falsy(loc.station_name) THEN NA ELSE loc.station_name,
              coordinates  |-> IF Falsy(head.coordinates) THEN NA ELSE head.coordinates,
              catchment_area_km2  |-> head.catchment_area,
              annual_avg_flow_m3s |-> head.annual_avg_flow,
              annual_total_m3     |-> totals.annual_total,
              mm_total            |-> totals.mm_total,
              avg_ltsnkm2         |-> totals.avg_ltsnkm2,
              monthly |-> [mt \in {metrics[k] : k \in 1..6} |->
                             IF mt \in DOMAIN monthly THEN monthly[mt]
                             ELSE [j \in 1..12 |-> NoneVal]]]

PdfName(y) == <<"dsi_", y, ".pdf">>

\* "Maks. 0,54 1,32 0,62 KURU 2,10 3,05 4,40 2,75 1,15 0,80 0,45 0,30"
rowTail == Sp(Sp(Sp(Sp(Sp(Sp(Sp(<<"2", ",", "1", "0">>, <<"3", ",", "0", "5">>), <<"4", ",", "4", "0">>),
              <<"2", ",", "7", "5">>), <<"1", ",", "1", "5">>), <<"0", ",", "8", "0">>),
              <<"0", ",", "4", "5">>), <<"0", ",", "3", "0">>)
rowHead == Sp(Sp(<<"0", ",", "5", "4">>, <<"1", ",", "3", "2">>), <<"0", ",", "6", "2">>)
lineMaksKuru == Sp(Sp(Sp(<<"M", "a", "k", "s", ".">>, rowHead), <<"K", "U", "R", "U">>), rowTail)
\* the same row with 1,00 in place of KURU
lineMaksFull == Sp(Sp(Sp(<<"M", "a", "k", "s", ".">>, rowHead), <<"1", ",", "0", "0">>), rowTail)
\* "Maks. 0,54 1,32": a row with two values only
lineMaksShort == Sp(<<"M", "a", "k", "s", ".">>, Sp(<<"0", ",", "5", "4">>, <<"1", ",", "3", "2">>))

FinalPages == PagesOver({lineStationA, lineStationOther, lineArea, lineMaksKuru})

\* what the extraction returns on every page of the inputs, for each year
FinalTable ==
    {[y |-> y, t |-> t, r |-> _extract_station_data_structured(t, 0, <<>>, y)] :
        y \in Years, t \in FinalPages}

InitFinal ==
    /\ script = "dsi_final_structured_extractor"
    /\ pc = "init"
    /\ year = 0
    /\ doc = "none"
    /\ page_count = 0
    /\ pno = 0
    /\ text = <<>>
    /\ results = <<>>
    /\ disk = <<>>
    /\ stdout = <<>>
    /\ exc = None
    /\ fileno = 0
    /\ seen = {}
    /\ loaded = 0

\* main(): DSIFinalExtractor(...) runs _initialize_csv, which opens the file with 'w'
FinalConstruct ==
    /\ script = "dsi_final_structured_extractor" /\ pc = "init"
    /\ disk' = (FinalOutput :> [header |-> FinalHeaders, rows |-> <<>>]) @@ disk
    /\ stdout' = Append(stdout, "OK initialized CSV")
    /\ pc' = "main"
    /\ UNCHANGED <<script, year, doc, page_count, pno, text, results, exc, fileno, seen, loaded>>

\* process_all_pdfs_structured: the PDF directory does not exist
FinalNoDirectory ==
    /\ script = "dsi_final_structured_extractor" /\ pc = "main"
    /\ stdout' = Append(stdout, "ERROR directory not found")
    /\ pc' = "done"
    /\ UNCHANGED <<script, year, doc, page_count, pno, text, results, disk, exc, fileno, seen, loaded>>

\* process_all_pdfs_structured: list and sort the directory
FinalListDirectory ==
    /\ script = "dsi_final_structured_extractor" /\ pc = "main"
    /\ seen' = {}
    /\ fileno' = 0
    /\ pc' = "files"
    /\ UNCHANGED <<script, year, doc, page_count, pno, text, results, disk, stdout, exc, loaded>>

\* the next file of the listing has no four digits in its name: continue
FinalFileNoYear ==
    /\ script = "dsi_final_structured_extractor" /\ pc = "files" /\ fileno < MaxFiles
    /\ fileno' = fileno + 1
    /\ UNCHANGED <<script, pc, year, doc, page_count, pno, text, results, disk, stdout, exc,
                 seen, loaded>>

\* the next file is dsi_<y>.pdf: _process_pdf_structured opens it
FinalOpen ==
    /\ script = "dsi_final_structured_extractor" /\ pc = "files" /\ fileno < MaxFiles
    /\ \E y \in Years : year' = y
    /\ \E n \in 0..(MaxPages - loaded) : page_count' = n
    /\ doc' = "open"
    /\ pno' = 0
    /\ results' = <<>>
    /\ pc' = "pages"
    /\ UNCHANGED <<script, text, disk, stdout, exc, fileno, seen, loaded>>

\* one iteration of the page loop of _process_pdf_structured
FinalPage ==
    /\ script = "dsi_final_structured_extractor" /\ pc = "pages" /\ pno < page_count
    /\ \E e \in FinalTable :
         /\ e.y = year
         /\ text' = e.t
         /\ results' = IF IsNone(e.r) THEN results
                       ELSE Append(results, [e.r EXCEPT !.page = pno + 1,
                                                        !.file = PdfName(year)])
    /\ pc' = "next"
    /\ loaded' = loaded + 1
    /\ UNCHANGED <<script, year, doc, page_count, pno, disk, stdout, exc, fileno, seen>>

FinalNext ==
    /\ script = "dsi_final_structured_extractor" /\ pc = "next"
    /\ pno' = pno + 1
    /\ text' = <<>>
    /\ pc' = "pages"
    /\ UNCHANGED <<script, year, doc, page_count, results, disk, stdout, exc, fileno, seen, loaded>>

\* the rows _append_to_csv adds for the results of one file, skipping duplicates
RECURSIVE FinalAppendRows(_, _, _, _)
FinalAppendRows(rs, i, y, keys) ==
    IF i > Len(rs) THEN [rows |-> <<>>, keys |-> keys]
    ELSE IF <<rs[i].station_code, y>> \in keys THEN FinalAppendRows(rs, i + 1, y, keys)
    ELSE LET rest == FinalAppendRows(rs, i + 1, y, keys \cup {<<rs[i].station_code, y>>})
         IN  [rows |-> <<rs[i]>> \o rest.rows, keys |-> rest.keys]

\* end of the page loop: doc.close(), return results; the caller appends them to the CSV
FinalCloseAndAppend ==
    /\ script = "dsi_final_structured_extractor" /\ pc = "pages" /\ pno = page_count
    /\ doc' = "closed"
    /\ LET a == FinalAppendRows(results, 1, year, seen)
       IN  /\ disk' = [disk EXCEPT ![FinalOutput].rows = @ \o a.rows]
           /\ seen' = a.keys
    /\ fileno' = fileno + 1
    /\ pc' = "files"
    /\ UNCHANGED <<script, year, page_count, pno, text, results, stdout, exc, loaded>>

\* no file is left in the listing
FinalFinish ==
    /\ script = "dsi_final_structured_extractor" /\ pc = "files"
    /\ stdout' = Append(stdout, "OK CSV updated")
    /\ pc' = "done"
    /\ UNCHANGED <<script, year, doc, page_count, pno, text, results, disk, exc, fileno, seen, loaded>>

NextFinal ==
    \/ FinalConstruct \/ FinalNoDirectory \/ FinalListDirectory \/ FinalFileNoYear
    \/ FinalOpen \/ FinalPage \/ FinalNext \/ FinalCloseAndAppend \/ FinalFinish

(***************************************************************************)
(* extract_dsi_stations.py: class DSIExtractor                             *)
(***************************************************************************)
target_stations_dsi == {
    <<"D", "2", "2", "A", "1", "4", "4">>,
    <<"D", "2", "2", "A", "1", "4", "5">>,
    <<"D", "2", "2", "A", "0", "6", "5">>,
    <<"D", "2", "2", "A", "0", "9", "3">>,
    <<"D", "2", "2", "A", "0", "9", "5">>,
    <<"D", "1", "4", "A", "1", "4", "9">>,
    <<"D", "2", "2", "A", "1", "5", "8">>
}

StaOutput == "dsi_akim_verileri_2000_2020.csv"

StaHeaders ==
    <<"Year", "Station_Code", "Station_Name", "Latitude", "Longitude",
      "Annual_Mean_Discharge", "Total_Annual_Flow", "Specific_Flow">>

\* s.find(needle), 1-based; 0 when the needle does not occur
Find(s, needle) ==
    LET hits == {i \in 1..(Len(s) - Len(needle) + 1) :
                    \A k \in 1..Len(needle) : s[i + k - 1] = needle[k]}
    IN  IF hits = {} THEN 0 ELSE SetMin(hits)

\* \d{1,2} deg \d{1,2} ' \d{1,2} " with groups g, g+1, g+2
DmsItems(g) ==
    <<Item(Digit, 1, 2, FALSE, FALSE, g), One({"deg"}, 0),
      Item(Digit, 1, 2, FALSE, FALSE, g + 1), One({"'"}, 0),
      Item(Digit, 1, 2, FALSE, FALSE, g + 2), One({"dq"}, 0)>>

\* a literal that is capture group g
LitG(w, g) == [i \in 1..Len(w) |-> One({w[i]}, g)]

wDogu  == <<"D", "o", "g~", "u">>
wBati  == <<"B", "a", "t", "i~">>
wKuzey == <<"K", "u", "z", "e", "y">>
wGuney == <<"G", "u~", "n", "e", "y">>

\* coord_patterns[0], the alternations (Dogu|Bati) and (Kuzey|Guney) written out
CoordPattern0(ew, ns) ==
    DmsItems(1) \o <<Star(WS, 0)>> \o LitG(ew, 4) \o <<Star(WS, 0), One({"-"}, 0), Star(WS, 0)>>
    \o DmsItems(5) \o <<Star(WS, 0)>> \o LitG(ns, 8)

\* coord_patterns[1] and [2]: one direction letter after each triple
CoordPatternLetters(first, second) ==
    DmsItems(1) \o <<One(first, 4), Plus(WS, 0)>> \o DmsItems(5) \o <<One(second, 8)>>

\* the angle of groups g..g+2 in seconds of arc: deg + min/60 + sec/3600
ArcSeconds(pat, s, m, g) ==
    3600 * DigitsToNat(Group(pat, s, m, g)) + 60 * DigitsToNat(Group(pat, s, m, g + 1))
    + DigitsToNat(Group(pat, s, m, g + 2))

Angle(v, negative) == [arcsec |-> IF negative THEN 0 - v ELSE v]

\* (latitude, longitude) of the first pattern that matches, or (None, None)
parse_coordinates(t) ==
    LET alts0 == <<CoordPattern0(wDogu, wKuzey), CoordPattern0(wDogu, wGuney),
                   CoordPattern0(wBati, wKuzey), CoordPattern0(wBati, wGuney)>>
        m0    == SearchAltFrom(alts0, t, 1)
        p1    == CoordPatternLetters({"K", "D"}, {"K", "D"})
        m1    == ReSearch(p1, t)
        p2    == CoordPatternLetters({"N", "S"}, {"E", "W"})
        m2    == ReSearch(p2, t)
    IN  IF m0.ok
        THEN [latitude  |-> Angle(ArcSeconds(alts0[m0.alt], t, m0, 5), m0.alt \in {2, 4}),
              longitude |-> Angle(ArcSeconds(alts0[m0.alt], t, m0, 1), m0.alt \in {3, 4})]
        ELSE IF m1.ok
        THEN [latitude  |-> Angle(ArcSeconds(p1, t, m1, 1), Group(p1, t, m1, 4) # <<"K">>),
              longitude |-> Angle(ArcSeconds(p1, t, m1, 5), Group(p1, t, m1, 8) # <<"D">>)]
        ELSE IF m2.ok
        THEN [latitude  |-> Angle(ArcSeconds(p2, t, m2, 1), Group(p2, t, m2, 4) = <<"S">>),
              longitude |-> Angle(ArcSeconds(p2, t, m2, 5), Group(p2, t, m2, 8) = <<"W">>)]
        ELSE [latitude |-> NoneVal, longitude |-> NoneVal]

\* numeric_pattern r'(\d+[.,]\d+|\d+)'
NumericAlts ==
    <<<<Plus(Digit, 1), One({".", ","}, 1), Plus(Digit, 1)>>, <<Plus(Digit, 1)>>>>

Units ==
    <<<<"m", "3", "/", "s", "n">>, <<"m", "3s", "/", "s", "n">>,
      <<"m", "i", "l", "y", "o", "n">>, <<"m", "3">>, <<"l", "t", "/", "s", "n">>, <<"m", "m">>>>

\* numeric_with_unit_pattern r'(\d+[.,]\d+|\d+)\s*(m3/sn|...|mm)', re.IGNORECASE:
\* each number alternative with each unit, in the order the matcher tries them
NumericWithUnitAlts ==
    [a \in 1..12 |-> NumericAlts[((a - 1) \div 6) + 1] \o <<Star(WS, 0)>>
                     \o LitI(Units[((a - 1) % 6) + 1])]

\* group 1 of the first match of an alternation, with ',' replaced by '.', or None
FirstNumber(alts, s) ==
    LET m == SearchAltFrom(alts, s, 1)
    IN  IF m.ok THEN Text(Replace(Group(alts[m.alt], s, m, 1), ",", ".")) ELSE NoneVal

\* the loop over the keywords of extract_numeric_value; the position found in
\* text.lower() is used in the text itself
RECURSIVE NumericFrom(_, _, _)
NumericFrom(t, keywords, k) ==
    IF k > Len(keywords) THEN NoneVal
    ELSE LET keyword_pos   == Find(Lower(t), Lower(keywords[k]))
             from          == keyword_pos + Len(keywords[k])
             after_keyword == SubSeq(t, from, Min(from + 99, Len(t)))
             with_unit     == FirstNumber(NumericWithUnitAlts, after_keyword)
             plain         == FirstNumber(NumericAlts, after_keyword)
         IN  IF keyword_pos = 0 THEN NumericFrom(t, keywords, k + 1)
             ELSE IF ~IsNone(with_unit) THEN with_unit
             ELSE IF ~IsNone(plain) THEN plain
             ELSE NumericFrom(t, keywords, k + 1)

extract_numeric_value(t, keywords) == NumericFrom(t, keywords, 1)

annual_mean_keywords(y) ==
    <<NatStr(y) \o <<" ", "s", "u", " ", "y", "i~", "l", "i~", "n", "d", "a">>,
      <<"s", "u", " ", "y", "i~", "l", "i~", "n", "d", "a">>,
      <<"y", "i~", "l", "l", "i~", "k", " ", "o", "r", "t", "a", "l", "a", "m", "a">>,
      <<"a", "n", "n", "u", "a", "l", " ", "m", "e", "a", "n">>,
      <<"o", "r", "t", "a", "l", "a", "m", "a">>,
      <<"m", "3", "/", "s", "n">>>>

total_flow_keywords ==
    <<<<"y", "i~", "l", "l", "i~", "k", " ", "t", "o", "p", "l", "a", "m">>,
      <<"t", "o", "t", "a", "l", " ", "a", "n", "n", "u", "a", "l">>,
      <<"t", "o", "p", "l", "a", "m">>,
      <<"y", "i~", "l", "l", "i~", "k", " ", "t", "o", "p", "l", "a", "m", " ", "a", "k", "i~", "m">>,
      <<"m", "i", "l", "y", "o", "n", " ", "m", "3">>,
      <<"m", "i", "l", "y", "o", "n">>,
      <<"y", "i~", "l", "l", "i~", "k", " ", "t", "o", "p", "l", "a", "m", " ", "a", "k", "i~", "m">>,
      <<"t", "o", "p", "l", "a", "m", " ", "a", "k", "i~", "m">>>>

specific_flow_keywords ==
    <<<<"o~", "z", "g", "u~", "l", " ", "d", "e", "b", "i">>,
      <<"s", "p", "e", "c", "i", "f", "i", "c", " ", "f", "l", "o", "w">>,
      <<"o~", "z", "g", "u~", "l">>,
      <<"l", "t", "/", "s", "n", "/", "k", "m", "2">>,
      <<"l", "t", "/", "s", "n", "/", "k", "m">>,
      <<"l", "t", "/", "s", "n">>,
      <<"o~", "z", "g", "u~", "l", " ", "a", "k", "i~", "m">>>>

\* line.split(station_code)[1].strip() of the first of lines[:5] that holds the code
RECURSIVE StaStationName(_, _, _)
StaStationName(lines, i, station_code) ==
    IF i > Min(5, Len(lines)) THEN <<>>
    ELSE LET at   == Find(lines[i], station_code)
             rest == SubSeq(lines[i], at + Len(station_code), Len(lines[i]))
             nxt  == Find(rest, station_code)
         IN  IF at = 0 THEN StaStationName(lines, i + 1, station_code)
             ELSE Strip(IF nxt = 0 THEN rest ELSE SubSeq(rest, 1, nxt - 1))

extract_station_data(t, station_code, y) ==
    [Year |-> y, Station_Code |-> station_code,
     Station_Name |-> Text(StaStationName(t, 1, station_code)),
     Latitude  |-> parse_coordinates(JoinLines(t)).latitude,
     Longitude |-> parse_coordinates(JoinLines(t)).longitude,
     Annual_Mean_Discharge |-> extract_numeric_value(JoinLines(t), annual_mean_keywords(y)),
     Total_Annual_Flow     |-> extract_numeric_value(JoinLines(t), total_flow_keywords),
     Specific_Flow         |-> extract_numeric_value(JoinLines(t), specific_flow_keywords)]

get_second_line_text(t) == IF Len(t) > 1 THEN Strip(t[2]) ELSE <<>>

\* the body of the page loop of process_pdf: the row appended to the CSV, or None
StaPageRow(t, y) ==
    LET second_line   == get_second_line_text(t)
        station_match == ReSearch(StationCodePat, second_line)
        station_code  == SubSeq(second_line, station_match.start, station_match.start + 6)
    IN  IF second_line = <<>> THEN NoneVal
        ELSE IF ~station_match.ok THEN NoneVal
        ELSE IF station_code \notin target_stations_dsi THEN NoneVal
        ELSE extract_station_data(t, station_code, y)

\* "2020 Su yilinda 4,711 m3/sn" (with dotless i)
lineFlow ==
    Sp(Sp(Sp(Sp(<<"2", "0", "2", "0">>, <<"S", "u">>), <<"y", "i~", "l", "i~", "n", "d", "a">>),
          <<"4", ",", "7", "1", "1">>), <<"m", "3", "/", "s", "n">>)

StaPages == PagesOver({lineStationA, lineStationOther, lineArea, lineFlow})

\* what the page loop appends for every page of the inputs, for each year
StaTable == {[y |-> y, t |-> t, r |-> StaPageRow(t, y)] : y \in Years, t \in StaPages}

\* a row left in the output file by an earlier run
StaEarlierRow ==
    [Year |-> 2019, Station_Code |-> codeD22A093, Station_Name |-> Text(<<"T", " ", "K">>),
     Latitude |-> NoneVal, Longitude |-> NoneVal, Annual_Mean_Discharge |-> NoneVal,
     Total_Annual_Flow |-> NoneVal, Specific_Flow |-> NoneVal]

InitSta ==
    /\ script = "extract_dsi_stations"
    /\ pc = "init"
    /\ year = 0
    /\ doc = "none"
    /\ page_count = 0
    /\ pno = 0
    /\ text = <<>>
    /\ results = <<>>
    /\ disk \in {<<>>,
                 StaOutput :> [header |-> StaHeaders, rows |-> <<>>],
                 StaOutput :> [header |-> StaHeaders, rows |-> <<StaEarlierRow>>]}
    /\ stdout = <<>>
    /\ exc = None
    /\ fileno = 0
    /\ seen = {}
    /\ loaded = 0

\* main(): DSIExtractor(...) runs _initialize_csv
StaConstruct ==
    /\ script = "extract_dsi_stations" /\ pc = "init"
    /\ IF StaOutput \notin DOMAIN disk
       THEN /\ disk' = (StaOutput :> [header |-> StaHeaders, rows |-> <<>>]) @@ disk
            /\ stdout' = Append(stdout, "INFO created new CSV file")
       ELSE disk' = disk /\ stdout' = stdout
    /\ pc' = "main"
    /\ UNCHANGED <<script, year, doc, page_count, pno, text, results, exc, fileno, seen, loaded>>

\* run(): the PDF directory does not exist
StaNoDirectory ==
    /\ script = "extract_dsi_stations" /\ pc = "main"
    /\ stdout' = Append(stdout, "ERROR directory does not exist")
    /\ pc' = "done"
    /\ UNCHANGED <<script, year, doc, page_count, pno, text, results, disk, exc, fileno, seen,
                 loaded>>

\* run(): the directory holds no PDF file
StaNoPdfFiles ==
    /\ script = "extract_dsi_stations" /\ pc = "main"
    /\ stdout' = Append(stdout, "ERROR no PDF files found")
    /\ pc' = "done"
    /\ UNCHANGED <<script, year, doc, page_count, pno, text, results, disk, exc, fileno, seen,
                 loaded>>

\* run(): the sorted listing holds at least one file
StaListDirectory ==
    /\ script = "extract_dsi_stations" /\ pc = "main"
    /\ stdout' = Append(stdout, "INFO found PDF files")
    /\ fileno' = 0
    /\ pc' = "files"
    /\ UNCHANGED <<script, year, doc, page_count, pno, text, results, disk, exc, seen, loaded>>

\* process_pdf: the file name holds no year
StaFileNoYear ==
    /\ script = "extract_dsi_stations" /\ pc = "files" /\ fileno < MaxFiles
    /\ stdout' = Append(stdout, "WARNING no year in filename")
    /\ fileno' = fileno + 1
    /\ UNCHANGED <<script, pc, year, doc, page_count, pno, text, results, disk, exc, seen,
                 loaded>>

\* process_pdf: fitz.open on dsi_<y>.pdf
StaOpen ==
    /\ script = "extract_dsi_stations" /\ pc = "files" /\ fileno < MaxFiles
    /\ \E y \in Years : year' = y
    /\ \E n \in 0..(MaxPages - loaded) : page_count' = n
    /\ doc' = "open"
    /\ pno' = 0
    /\ pc' = "pages"
    /\ UNCHANGED <<script, text, results, disk, stdout, exc, fileno, seen, loaded>>

\* the page loop of process_pdf keeping its rows in a list instead of appending them
StaPage_accumulate ==
    /\ script = "extract_dsi_stations" /\ pc = "pages" /\ pno < page_count
    /\ \E e \in StaTable :
         /\ e.y = year
         /\ text' = e.t
         /\ results' = IF IsNone(e.r) THEN results ELSE Append(results, e.r)
    /\ pc' = "next"
    /\ loaded' = loaded + 1
    /\ UNCHANGED <<script, year, doc, page_count, pno, disk, stdout, exc, fileno, seen>>

\* one iteration of the page loop of process_pdf: a row is appended to the file at once
StaPage ==
    /\ script = "extract_dsi_stations" /\ pc = "pages" /\ pno < page_count
    /\ \E e \in StaTable :
         /\ e.y = year
         /\ text' = e.t
         /\ IF IsNone(e.r) THEN disk' = disk /\ stdout' = stdout
            ELSE /\ disk' = [disk EXCEPT ![StaOutput].rows = Append(@, e.r)]
                 /\ stdout' = Append(stdout, "INFO extracted data")
    /\ pc' = "next"
    /\ loaded' = loaded + 1
    /\ UNCHANGED <<script, year, doc, page_count, pno, results, exc, fileno, seen>>

StaNext ==
    /\ script = "extract_dsi_stations" /\ pc = "next"
    /\ pno' = pno + 1
    /\ text' = <<>>
    /\ pc' = "pages"
    /\ UNCHANGED <<script, year, doc, page_count, results, disk, stdout, exc, fileno, seen,
                 loaded>>

\* end of the page loop: doc.close(), return stations_found
StaClose ==
    /\ script = "extract_dsi_stations" /\ pc = "pages" /\ pno = page_count
    /\ doc' = "closed"
    /\ fileno' = fileno + 1
    /\ pc' = "files"
    /\ UNCHANGED <<script, year, page_count, pno, text, results, disk, stdout, exc, seen,
                 loaded>>

\* run(): every file of the listing is processed
StaFinish ==
    /\ script = "extract_dsi_stations" /\ pc = "files" /\ fileno > 0
    /\ stdout' = Append(stdout, "INFO processing complete")
    /\ pc' = "done"
    /\ UNCHANGED <<script, year, doc, page_count, pno, text, results, disk, exc, fileno, seen,
                 loaded>>

NextSta ==
    \/ StaConstruct \/ StaNoDirectory \/ StaNoPdfFiles \/ StaListDirectory \/ StaFileNoYear
    \/ StaOpen \/ StaPage \/ StaNext \/ StaClose \/ StaFinish

(***************************************************************************)
(* new_pdf_reader_2020.py                                                  *)
(***************************************************************************)
\* ALLOWED_STATIONS lists the same 37 codes as TARGET_STATIONS
ALLOWED_STATIONS == TARGET_STATIONS

normalize_text(t) ==
    [i \in 1..Len(t) |->
        CASE t[i] = "i~" -> "i" [] t[i] = "I~" -> "I" [] t[i] = "g~" -> "g" [] t[i] = "G~" -> "G"
          [] t[i] = "u~" -> "u" [] t[i] = "U~" -> "U" [] t[i] = "s~" -> "s" [] t[i] = "S~" -> "S"
          [] t[i] = "o~" -> "o" [] t[i] = "O~" -> "O" [] t[i] = "c~" -> "c" [] t[i] = "C~" -> "C"
          [] OTHER -> t[i]]

\* r"14\.\s*Ye[s~s]ilirmak\s*Havzas[i~i]", r"14\s*-\s*YE[S~S][I~I]LIRMAK\s*HAVZASI",
\* r"22\.\s*Do[g~g]u\s*Karadeniz\s*Havzas[i~i]", all under re.IGNORECASE
REGION_PATTERNS ==
    <<Lit(<<"1", "4", ".">>) \o <<Star(WS, 0)>> \o LitI(<<"Y", "e">>)
        \o <<One(IgnoreCase({"s~", "s"}), 0)>> \o LitI(<<"i", "l", "i", "r", "m", "a", "k">>)
        \o <<Star(WS, 0)>> \o LitI(<<"H", "a", "v", "z", "a", "s">>)
        \o <<One(IgnoreCase({"i~", "i"}), 0)>>,
      Lit(<<"1", "4">>) \o <<Star(WS, 0), One({"-"}, 0), Star(WS, 0)>> \o LitI(<<"Y", "E">>)
        \o <<One(IgnoreCase({"S~", "S"}), 0), One(IgnoreCase({"I~", "I"}), 0)>>
        \o LitI(<<"L", "I", "R", "M", "A", "K">>) \o <<Star(WS, 0)>>
        \o LitI(<<"H", "A", "V", "Z", "A", "S", "I">>),
      Lit(<<"2", "2", ".">>) \o <<Star(WS, 0)>> \o LitI(<<"D", "o">>)
        \o <<One(IgnoreCase({"g~", "g"}), 0)>> \o LitI(<<"u">>) \o <<Star(WS, 0)>>
        \o LitI(<<"K", "a", "r", "a", "d", "e", "n", "i", "z">>) \o <<Star(WS, 0)>>
        \o LitI(<<"H", "a", "v", "z", "a", "s">>) \o <<One(IgnoreCase({"i~", "i"}), 0)>>>>

is_valid_region(line) ==
    \E p \in 1..Len(REGION_PATTERNS) : ReSearch(REGION_PATTERNS[p], normalize_text(line)).ok

\* r"-?\d+\.?\d*"
NumberPat == <<Opt({"-"}, 0), Plus(Digit, 0), Opt({"."}, 0), Star(Digit, 0)>>

\* extract_number without the replacement of the comma
extract_number_keep_comma(t) ==
    LET numbers == FindAll(NumberPat, t)
    IN  IF numbers = <<>> THEN Zero ELSE PyFloat(numbers[1])

\* extract_number with allow_negative=False: a negative first number gives 0.0
extract_number(t) ==
    LET numbers == FindAll(NumberPat, Replace(t, ",", "."))
    IN  IF t = <<>> \/ Strip(t) \in {<<"K", "U", "R", "U">>, <<"-", "-", "-", "-", "-">>, <<>>}
        THEN Zero
        ELSE IF numbers = <<>> THEN Zero
        ELSE IF Head(numbers[1]) = "-" THEN Zero
        ELSE IF IsFloat(PyFloat(numbers[1])) THEN PyFloat(numbers[1])
        ELSE Zero

\* r"([A-Z]\d{2}[A-Z]\d{3})\s+(.+)"
StationInfoPat ==
    <<One(AsciiUpper, 1), Rep(Digit, 2, 1), One(AsciiUpper, 1), Rep(Digit, 3, 1),
      Plus(WS, 0), Plus(AnyChar, 2)>>

\* the first line of lines[i..] that matches, or None
RECURSIVE extract_station_info(_, _)
extract_station_info(lines, i) ==
    IF i > Len(lines) THEN NoneVal
    ELSE LET line == Strip(lines[i])
             m    == ReMatch(StationInfoPat, line)
         IN  IF line # <<>> /\ m.ok
             THEN [station_code |-> Group(StationInfoPat, line, m, 1),
                   station_name |-> Strip(Group(StationInfoPat, line, m, 2))]
             ELSE extract_station_info(lines, i + 1)

\* r"<label>\s*:\s*([\d,\.]+)\s*<unit>" under re.IGNORECASE
LabelledNumberPat(label, unit) ==
    label \o <<Star(WS, 0), One({":"}, 0), Star(WS, 0), Plus(Digit \cup {",", "."}, 1), Star(WS, 0)>>
    \o LitI(unit)

\* float(m.group(1).replace(",", ".")) if the pattern matches, else None
FloatOfGroup(pat, line) ==
    LET m == ReSearch(pat, line)
    IN  IF m.ok THEN PyFloat(Replace(Group(pat, line, m, 1), ",", ".")) ELSE NoneVal

\* index of the first line that satisfies Test, or 0
FirstLine(lines, Test(_)) ==
    LET hits == {i \in 1..Len(lines) : Test(lines[i])}
    IN  IF hits = {} THEN 0 ELSE SetMin(hits)

CatchmentPat ==
    LabelledNumberPat(LitI(<<"Y", "A">>) \o <<One(IgnoreCase({"G~", "G"}), 0)>> \o LitI(<<"I">>)
                        \o <<One(IgnoreCase({"S~", "S"}), 0), Star(WS, 0)>>
                        \o LitI(<<"A", "L", "A", "N", "I">>), <<"k", "m">>)
ElevationPat ==
    LabelledNumberPat(LitI(<<"Y", "A", "K", "L", "A">>) \o <<One(IgnoreCase({"S~", "S"}), 0)>>
                        \o LitI(<<"I", "K">>) \o <<Star(WS, 0)>> \o LitI(<<"K", "O", "T">>),
                      <<"m">>)

\* (catchment, elevation): floats, None, or ValueError raised by float()
\* extract_catchment_info giving the figure after YAKLASIK KOT as the area
extract_catchment_info_kot(lines) ==
    LET k == FirstLine(lines, LAMBDA ln : Contains(ln, wYAGIS_ALANI) \/ Contains(ln, wYAGIS_ascii))
    IN  IF k = 0 THEN [catchment |-> NoneVal, elevation |-> NoneVal]
        ELSE [catchment |-> FloatOfGroup(ElevationPat, lines[k]),
              elevation |-> FloatOfGroup(ElevationPat, lines[k])]

extract_catchment_info(lines) ==
    LET k == FirstLine(lines, LAMBDA ln : Contains(ln, wYAGIS_ALANI) \/ Contains(ln, wYAGIS_ascii))
    IN  IF k = 0 THEN [catchment |-> NoneVal, elevation |-> NoneVal]
        ELSE [catchment |-> FloatOfGroup(CatchmentPat, lines[k]),
              elevation |-> FloatOfGroup(ElevationPat, lines[k])]

wORTALAMA_AKIMLAR ==
    <<"O", "R", "T", "A", "L", "A", "M", "A", " ", "A", "K", "I", "M", "L", "A", "R">>

\* r"Su\s*y[iI~l]+[i~I]+nda\s+([\d,\.]+)\s*m3/?sn" under re.IGNORECASE
AvgFlowPat ==
    LitI(<<"S", "u">>) \o <<Star(WS, 0)>> \o LitI(<<"y">>)
    \o <<Plus(IgnoreCase({"i", "I~", "l"}), 0), Plus(IgnoreCase({"i~", "I"}), 0)>>
    \o LitI(<<"n", "d", "a">>) \o <<Plus(WS, 0), Plus(Digit \cup {",", "."}, 1), Star(WS, 0)>>
    \o LitI(<<"m", "3">>) \o <<Opt({"/"}, 0)>> \o LitI(<<"s", "n">>)

\* the loop of extract_avg_annual_flow from line i: the first labelled line that matches
RECURSIVE AvgFlowFrom(_, _)
AvgFlowFrom(lines, i) ==
    IF i > Len(lines) THEN NoneVal
    ELSE IF Contains(lines[i], wORTALAMA_AKIMLAR) /\ ReSearch(AvgFlowPat, lines[i]).ok
    THEN FloatOfGroup(AvgFlowPat, lines[i])
    ELSE AvgFlowFrom(lines, i + 1)

extract_avg_annual_flow(lines) == AvgFlowFrom(lines, 1)

labels ==
    <<<<"M", "a", "k", "s", ".">>, <<"M", "i", "n", ".">>,
      <<"O", "r", "t", "a", "l", "a", "m", "a">>,
      <<"L", "T", "/", "S", "N", "/", "K", "m", "2">>,
      <<"A", "K", "I", "M", " ", "m", "m", ".">>, <<"M", "I~", "L", ".", " ", "M", "3">>>>
suffixes == <<"max_flow_m3s", "min_flow_m3s", "avg_flow_m3s", "lt_sn_km2", "mm", "mil_m3">>

\* line.startswith(label) or re.match(rf"^{re.escape(label)}\s+", line, re.IGNORECASE):
\* the index of the first label the line starts with, or 0
LabelOf(line) ==
    LET hits == {l \in 1..Len(labels) :
                    \/ StartsWith(line, labels[l])
                    \/ ReMatch(LitI(labels[l]) \o <<Plus(WS, 0)>>, line).ok}
    IN  IF hits = {} THEN 0 ELSE SetMin(hits)

\* [extract_number(n) for n in re.findall(r"[\d,\.]+", t)]
NumbersOf(t) ==
    LET numbers == FindAll(<<Plus(Digit \cup {",", "."}, 0)>>, t)
    IN  [k \in 1..Len(numbers) |-> extract_number(numbers[k])]

\* the 12 fields of a label are stored when it has a value: a month without one gets 0.0
SaveLabel(current_label, current_values, monthly_data) ==
    IF current_label # 0 /\ current_values # <<>>
    THEN (suffixes[current_label] :>
            [k \in 1..12 |-> IF k <= Len(current_values) THEN current_values[k] ELSE Zero])
         @@ monthly_data
    ELSE monthly_data

\* the loop over the lines of extract_monthly_data, and the save after it
RECURSIVE MonthlyFrom(_, _, _, _, _)
MonthlyFrom(lines, i, current_label, current_values, monthly_data) ==
    IF i > Len(lines) THEN SaveLabel(current_label, current_values, monthly_data)
    ELSE IF Strip(lines[i]) = <<>>
    THEN MonthlyFrom(lines, i + 1, current_label, current_values, monthly_data)
    ELSE IF LabelOf(Strip(lines[i])) # 0
    THEN MonthlyFrom(lines, i + 1, LabelOf(Strip(lines[i])),
                     NumbersOf(Strip(SubSeq(Strip(lines[i]),
                                            Len(labels[LabelOf(Strip(lines[i]))]) + 1,
                                            Len(Strip(lines[i]))))),
                     SaveLabel(current_label, current_values, monthly_data))
    ELSE IF current_label # 0
    THEN MonthlyFrom(lines, i + 1, current_label,
                     current_values \o NumbersOf(Strip(lines[i])), monthly_data)
    ELSE MonthlyFrom(lines, i + 1, current_label, current_values, monthly_data)

extract_monthly_data(lines) == MonthlyFrom(lines, 1, 0, <<>>, EmptyMonthly)

\* r"YILLIK\s*TOPLAM\s*AKIM\s*([\d,\.]+)\s*MI~LYON\s*M3" under re.IGNORECASE
TotalFlowPat ==
    LitI(<<"Y", "I", "L", "L", "I", "K">>) \o <<Star(WS, 0)>>
    \o LitI(<<"T", "O", "P", "L", "A", "M">>) \o <<Star(WS, 0)>> \o LitI(<<"A", "K", "I", "M">>)
    \o <<Star(WS, 0), Plus(Digit \cup {",", "."}, 1), Star(WS, 0)>>
    \o LitI(<<"M", "I~", "L", "Y", "O", "N">>) \o <<Star(WS, 0)>> \o LitI(<<"M", "3">>)
\* r"([\d,\.]+)\s*MM\." under re.IGNORECASE
MmPat == <<Plus(Digit \cup {",", "."}, 1), Star(WS, 0)>> \o LitI(<<"M", "M">>) \o Lit(<<".">>)
\* r"([\d,\.]+)\s*LT/?SN?/?Km2" under re.IGNORECASE
LtSnKm2Pat ==
    <<Plus(Digit \cup {",", "."}, 1), Star(WS, 0)>> \o LitI(<<"L", "T">>) \o <<Opt({"/"}, 0)>>
    \o LitI(<<"S">>) \o <<Opt(CaseClass("N"), 0), Opt({"/"}, 0)>> \o LitI(<<"K", "m", "2">>)

extract_annual_totals(lines) ==
    LET k == FirstLine(lines, LAMBDA ln :
                 /\ Contains(ln, <<"S", "U", " ", "Y", "I", "L", "I">>)
                 /\ Contains(ln, <<"Y", "I", "L", "L", "I", "K", " ", "T", "O", "P", "L", "A", "M",
                                   " ", "A", "K", "I", "M">>))
    IN  IF k = 0 THEN [total_flow |-> NoneVal, mm |-> NoneVal, lt_sn_km2 |-> NoneVal]
        ELSE [total_flow |-> FloatOfGroup(TotalFlowPat, lines[k]),
              mm         |-> FloatOfGroup(MmPat, lines[k]),
              lt_sn_km2  |-> FloatOfGroup(LtSnKm2Pat, lines[k])]

\* r"GO~ZLEM\s*SU~RESI~\s*:\s*(.+)" under re.IGNORECASE
ObservationPat ==
    LitI(<<"G", "O~", "Z", "L", "E", "M">>) \o <<Star(WS, 0)>>
    \o LitI(<<"S", "U~", "R", "E", "S", "I~">>)
    \o <<Star(WS, 0), One({":"}, 0), Star(WS, 0), Plus(AnyChar, 1)>>

RECURSIVE ObservationFrom(_, _)
ObservationFrom(lines, i) ==
    IF i > Len(lines) THEN NoneVal
    ELSE IF /\ \/ Contains(lines[i], <<"G", "O~", "Z", "L", "E", "M", " ", "S", "U~", "R", "E", "S", "I~">>)
               \/ Contains(lines[i], <<"G", "O", "Z", "L", "E", "M", " ", "S", "U", "R", "E", "S", "I">>)
            /\ ReSearch(ObservationPat, lines[i]).ok
    THEN Text(Strip(Group(ObservationPat, lines[i], ReSearch(ObservationPat, lines[i]), 1)))
    ELSE ObservationFrom(lines, i + 1)

extract_observation_period(lines) == ObservationFrom(lines, 1)

\* r"\d+\.\s*(.+)"
RegionNamePat == <<Plus(Digit, 0), One({"."}, 0), Star(WS, 0), Plus(AnyChar, 1)>>

IsRaised(v) == "raised" \in DOMAIN v

\* the first exception raised while the fields are extracted in the order of the code
FirstRaised(vs) ==
    LET hits == {k \in 1..Len(vs) : IsRaised(vs[k])}
    IN  IF hits = {} THEN None ELSE vs[SetMin(hits)].raised

\* the fields of parse_station_page once the station is located
NewRecord(lines, info, page_num, filename, y) ==
    LET c == extract_catchment_info(lines)
        a == extract_annual_totals(lines)
        f == extract_avg_annual_flow(lines)
        m == ReMatch(RegionNamePat, lines[1])
    IN  [rec |-> [file |-> filename, page |-> page_num,
                  region_name  |-> IF m.ok THEN Strip(Group(RegionNamePat, lines[1], m, 1))
                                   ELSE lines[1],
                  year |-> y,
                  station_code |-> info.station_code, station_name |-> info.station_name,
                  catchment_area_km2 |-> c.catchment, estimated_elevation_m |-> c.elevation,
                  observation_period |-> extract_observation_period(lines),
                  avg_annual_flow_m3s |-> f,
                  annual_total_flow_m3 |-> a.total_flow, annual_mm |-> a.mm,
                  annual_lt_sn_km2 |-> a.lt_sn_km2,
                  monthly |-> extract_monthly_data(lines)],
         exc |-> FirstRaised(<<c.catchment, c.elevation, f, a.total_flow, a.mm, a.lt_sn_km2>>)]

\* parse_station_page without the test against ALLOWED_STATIONS
parse_station_page_unfiltered(lines, page_num, filename, y) ==
    LET info == extract_station_info(SubSeq(lines, 2, Min(5, Len(lines))), 1)
    IN  IF lines = <<>> THEN [rec |-> NoneVal, exc |-> None]
        ELSE IF ~is_valid_region(lines[1]) THEN [rec |-> NoneVal, exc |-> None]
        ELSE IF IsNone(info) THEN [rec |-> NoneVal, exc |-> None]
        ELSE LET r == NewRecord(lines, info, page_num, filename, y)
             IN  IF r.exc # None THEN [rec |-> NoneVal, exc |-> r.exc] ELSE r

\* parse_station_page: the record (or None), the exception it raises (or None);
\* lines are the stripped non-empty lines of the page
parse_station_page(lines, page_num, filename, y) ==
    LET info == extract_station_info(SubSeq(lines, 2, Min(5, Len(lines))), 1)
    IN  IF lines = <<>> THEN [rec |-> NoneVal, exc |-> None]
        ELSE IF ~is_valid_region(lines[1]) THEN [rec |-> NoneVal, exc |-> None]
        ELSE IF IsNone(info) THEN [rec |-> NoneVal, exc |-> None]
        ELSE IF info.station_code \notin ALLOWED_STATIONS THEN [rec |-> NoneVal, exc |-> None]
        ELSE LET r == NewRecord(lines, info, page_num, filename, y)
             IN  IF r.exc # None THEN [rec |-> NoneVal, exc |-> r.exc] ELSE r

\* "22. Dogu Karadeniz Havzasi" (with soft g and dotless i): a valid region header
lineRegion ==
    Sp(Sp(Sp(<<"2", "2", ".">>, <<"D", "o", "g~", "u">>),
          <<"K", "a", "r", "a", "d", "e", "n", "i", "z">>),
       <<"H", "a", "v", "z", "a", "s", "i~">>)
\* "ORTALAMA AKIMLAR : 2020 Su yilinda 1.234,5 m3/sn": a flow with a thousands separator
lineAvgThousands ==
    Sp(Sp(Sp(Sp(Sp(Sp(wORTALAMA_AKIMLAR, <<":">>), <<"2", "0", "2", "0">>), <<"S", "u">>),
             <<"y", "i~", "l", "i~", "n", "d", "a">>), <<"1", ".", "2", "3", "4", ",", "5">>),
       <<"m", "3", "/", "s", "n">>)

NewPages == PagesOver({lineRegion, lineStationA, lineStationOther, lineCodeOnly, lineMaksKuru,
                       lineMaksShort, lineAvgThousands})

\* what parse_station_page returns on every page of the inputs, for each year
NewTable ==
    {[y |-> y, t |-> t, r |-> parse_station_page(StrippedLines(t), 0, <<>>, y)] :
        y \in Years, t \in NewPages}

\* args.output
NewOutput == "extracted_data.csv"

InitNew ==
    /\ script = "new_pdf_reader_2020"
    /\ pc = "main"
    /\ year = 0
    /\ doc = "none"
    /\ page_count = 0
    /\ pno = 0
    /\ text = <<>>
    /\ results = <<>>
    /\ disk = <<>>
    /\ stdout = <<>>
    /\ exc = None
    /\ fileno = 0
    /\ seen = {}
    /\ loaded = 0

\* process_pdf: fitz.open raises on a missing file; main() catches it
NewMissing ==
    /\ script = "new_pdf_reader_2020" /\ pc = "main"
    /\ stdout' = Append(stdout, "Opening PDF")
    /\ exc' = "FileNotFoundError"
    /\ pc' = "raised"
    /\ UNCHANGED <<script, year, doc, page_count, pno, text, results, disk, fileno, seen,
                 loaded>>

\* process_pdf: fitz.open, the year of the file name (or "2020"), all_results = []
NewOpen ==
    /\ script = "new_pdf_reader_2020" /\ pc = "main"
    /\ stdout' = Append(stdout, "Opening PDF")
    /\ \E y \in Years : year' = y
    /\ \E n \in 0..MaxPages : page_count' = n
    /\ doc' = "open"
    /\ pno' = 0
    /\ results' = <<>>
    /\ pc' = "pages"
    /\ UNCHANGED <<script, text, disk, exc, fileno, seen, loaded>>

\* one iteration of the page loop of process_pdf
NewPage ==
    /\ script = "new_pdf_reader_2020" /\ pc = "pages" /\ pno < page_count
    /\ \E e \in NewTable :
         /\ e.y = year
         /\ text' = e.t
         /\ IF e.r.exc # None
            THEN /\ exc' = e.r.exc
                 /\ pc' = "raised"
                 /\ results' = results
                 /\ stdout' = stdout
            ELSE /\ exc' = exc
                 /\ pc' = "next"
                 /\ results' = IF IsNone(e.r.rec) THEN results
                               ELSE Append(results, [e.r.rec EXCEPT !.page = pno + 1,
                                                                    !.file = PdfName(year)])
                 /\ stdout' = Append(stdout, IF IsNone(e.r.rec) THEN "SKIPPED" ELSE "EXTRACTED")
    /\ loaded' = loaded + 1
    /\ UNCHANGED <<script, year, doc, page_count, pno, disk, fileno, seen>>

NewNext ==
    /\ script = "new_pdf_reader_2020" /\ pc = "next"
    /\ pno' = pno + 1
    /\ text' = <<>>
    /\ pc' = "pages"
    /\ UNCHANGED <<script, year, doc, page_count, results, disk, stdout, exc, fileno, seen,
                 loaded>>

\* end of the loop: doc.close(), then the CSV is written if there are results
NewCloseAndSave ==
    /\ script = "new_pdf_reader_2020" /\ pc = "pages" /\ pno = page_count
    /\ doc' = "closed"
    /\ IF results # <<>>
       THEN /\ disk' = (NewOutput :> [header |-> "columns of the records", rows |-> results]) @@ disk
            /\ stdout' = Append(stdout, "Saved")
       ELSE /\ disk' = disk
            /\ stdout' = Append(stdout, "No data extracted!")
    /\ pc' = "done"
    /\ UNCHANGED <<script, year, page_count, pno, text, results, exc, fileno, seen, loaded>>

\* main(): except Exception prints the error and calls sys.exit(1)
NewExit ==
    /\ script = "new_pdf_reader_2020" /\ pc = "raised"
    /\ stdout' = Append(stdout, "Error")
    /\ pc' = "exit1"
    /\ UNCHANGED <<script, year, doc, page_count, pno, text, results, disk, exc, fileno, seen,
                 loaded>>

NextNew == NewMissing \/ NewOpen \/ NewPage \/ NewNext \/ NewCloseAndSave \/ NewExit

\* table_below.py -------------------------------------------------------------------

\* YEARS = range(2005, 2021), cut to the years of the inputs
YEARS == <<2019, 2020>>

\* clean_num of table_below.py: 0.0 when the text does not begin with a digit, comma or dot
tbl_clean_num(x) ==
    IF ReMatch(<<Plus(Digit \cup {",", "."}, 0)>>, Strip(x)).ok
    THEN PyFloat(Strip(Replace(x, ",", ".")))
    ELSE Zero

\* index of the first line from j on that starts with "Maks", or 0
RECURSIVE TblMaksLine(_, _)
TblMaksLine(lines, j) ==
    IF j > Len(lines) THEN 0
    ELSE IF StartsWith(lines[j], <<"M", "a", "k", "s">>) THEN j
    ELSE TblMaksLine(lines, j + 1)

\* the body of the loop over the lines of one page of extract_table, from line i on
RECURSIVE TblScanLines(_, _, _)
TblScanLines(lines, i, p) ==
    IF i > Len(lines) THEN <<>>
    ELSE LET m    == ReMatch(StationLinePat, lines[i])
             code == Upper(Group(StationLinePat, lines[i], m, 1))
             j    == TblMaksLine(lines, i)
             rest == TblScanLines(lines, i + 1, p)
         IN  IF ~m.ok THEN rest
             ELSE IF code \notin TARGET_STATIONS THEN rest
             ELSE IF j = 0 THEN rest
             ELSE <<[station_code |-> code, page |-> p + 1,
                     raw_table_text |-> JoinLines(SubSeq(lines, j, Min(j + 7, Len(lines))))]>>
                  \o rest

TblPages == PagesOver({lineStationA, lineStationOther, lineMaksShort})

TblTable == {[t |-> t, r |-> TblScanLines(StrippedLines(t), 1, 0)] : t \in TblPages}

TblOutputName(y) == <<"dsi_", y, "_full_flow_tables.csv">>

InitTbl ==
    /\ script = "table_below"
    /\ pc = "years"
    /\ year = 0
    /\ doc = "none"
    /\ page_count = 0
    /\ pno = 0
    /\ text = <<>>
    /\ results = <<>>
    /\ disk = <<>>
    /\ stdout = <<>>
    /\ exc = None
    /\ fileno = 0
    /\ seen = {}
    /\ loaded = 0

\* a loop that is left at once on a missing PDF
TblMissing_exit ==
    /\ script = "table_below" /\ pc = "years" /\ fileno < Len(YEARS)
    /\ year' = YEARS[fileno + 1]
    /\ stdout' = Append(stdout, [msg |-> "ERROR not found. Skipping", year |-> YEARS[fileno + 1]])
    /\ pc' = "done"
    /\ UNCHANGED <<script, doc, page_count, pno, text, results, disk, exc, fileno, seen, loaded>>

\* __main__: the PDF of the next year does not exist: message, continue
TblMissing ==
    /\ script = "table_below" /\ pc = "years" /\ fileno < Len(YEARS)
    /\ year' = YEARS[fileno + 1]
    /\ stdout' = Append(stdout, [msg |-> "ERROR not found. Skipping", year |-> YEARS[fileno + 1]])
    /\ fileno' = fileno + 1
    /\ UNCHANGED <<script, pc, doc, page_count, pno, text, results, disk, exc, seen, loaded>>

\* __main__: the PDF of the next year exists; extract_table opens it
TblOpen ==
    /\ script = "table_below" /\ pc = "years" /\ fileno < Len(YEARS)
    /\ year' = YEARS[fileno + 1]
    /\ \E n \in 0..(MaxPages - loaded) : page_count' = n
    /\ doc' = "open"
    /\ pno' = 0
    /\ results' = <<>>
    /\ pc' = "pages"
    /\ UNCHANGED <<script, text, disk, stdout, exc, fileno, seen, loaded>>

\* one iteration of the page loop of extract_table
TblPage ==
    /\ script = "table_below" /\ pc = "pages" /\ pno < page_count
    /\ \E e \in TblTable :
         LET recs == [k \in 1..Len(e.r) |-> [e.r[k] EXCEPT !.page = pno + 1]]
         IN  /\ text' = e.t
             /\ results' = results \o recs
             /\ stdout' = stdout \o [k \in 1..Len(recs) |-> [msg |-> "FOUND", year |-> year]]
    /\ pc' = "next"
    /\ loaded' = loaded + 1
    /\ UNCHANGED <<script, year, doc, page_count, pno, disk, exc, fileno, seen>>

TblNext ==
    /\ script = "table_below" /\ pc = "next"
    /\ pno' = pno + 1
    /\ text' = <<>>
    /\ pc' = "pages"
    /\ UNCHANGED <<script, year, doc, page_count, results, disk, stdout, exc, fileno, seen,
                 loaded>>

\* end of extract_table (doc.close()), then __main__ warns or writes the CSV of the year
TblCloseAndSave ==
    /\ script = "table_below" /\ pc = "pages" /\ pno = page_count
    /\ doc' = "closed"
    /\ IF results = <<>>
       THEN /\ stdout' = Append(stdout, [msg |-> "WARN no tables", year |-> year])
            /\ disk' = disk
       ELSE /\ disk' = (TblOutputName(year) :>
                          [header |-> <<"station_code", "page", "raw_table_text">>,
                           rows   |-> results]) @@ disk
            /\ stdout' = Append(stdout, [msg |-> "DONE", year |-> year])
    /\ fileno' = fileno + 1
    /\ pc' = "years"
    /\ UNCHANGED <<script, year, page_count, pno, text, results, exc, seen, loaded>>

\* the loop over YEARS is over
TblFinish ==
    /\ script = "table_below" /\ pc = "years" /\ fileno = Len(YEARS)
    /\ stdout' = Append(stdout, [msg |-> "SUCCESS", year |-> 0])
    /\ pc' = "done"
    /\ UNCHANGED <<script, year, doc, page_count, pno, text, results, disk, exc, fileno, seen,
                 loaded>>

NextTbl == TblMissing \/ TblOpen \/ TblPage \/ TblNext \/ TblCloseAndSave \/ TblFinish

Init == InitCatch \/ InitFinal \/ InitSta \/ InitNew \/ InitTbl

Next == NextCatch \/ NextFinal \/ NextSta \/ NextNew \/ NextTbl

Spec == Init /\ [][Next]_vars

SpecCatch == InitCatch /\ [][NextCatch]_vars
SpecFinal == InitFinal /\ [][NextFinal]_vars
SpecSta == InitSta /\ [][NextSta]_vars
SpecNew == InitNew /\ [][NextNew]_vars
SpecTbl == InitTbl /\ [][NextTbl]_vars

(***************************************************************************)
(* Properties.                                                             *)
(***************************************************************************)
\* the key of a row of an output file: its station code and its year (the rows
\* of catchment_data_km2.py carry no year column: the year is that of the run)
RowCode(r) == IF "station_code" \in DOMAIN r THEN r.station_code ELSE r.Station_Code
RowYear(r) ==
    IF "year" \in DOMAIN r THEN r.year ELSE IF "Year" \in DOMAIN r THEN r.Year ELSE year

DuplicateKeys(rows) ==
    \E i, j \in 1..Len(rows) :
        i < j /\ RowCode(rows[i]) = RowCode(rows[j]) /\ RowYear(rows[i]) = RowYear(rows[j])

SpecC1 == (InitCatch \/ InitFinal \/ InitSta) /\ [][NextCatch \/ NextFinal \/ NextSta]_vars

\* C1: after a complete run, no output file holds two rows with the same
\* (station_code, year), however many pages or files mention the station
C1_OneRowPerStationYear ==
    pc = "done" => \A f \in DOMAIN disk : ~DuplicateKeys(disk[f].rows)

\* the whitespace-separated tokens of a string
Tokens(s) == FindAll(<<Plus(AnyChar \ WS, 0)>>, s)

wKURU == <<"K", "U", "R", "U">>

\* a token that denotes zero in the source text: a literal zero, or the dry marker
DenotesZero(tok) ==
    \/ Upper(tok) = wKURU
    \/ /\ \A k \in 1..Len(tok) : tok[k] \in {"0", ",", "."}
       /\ \E k \in 1..Len(tok) : tok[k] = "0"

\* the tokens that follow the label in the first line of the page that starts with it
RowTokens(lines, label) ==
    LET hits == {i \in 1..Len(lines) : StartsWith(lines[i], label)}
    IN  IF hits = {} THEN <<>>
        ELSE Tokens(SubSeq(lines[SetMin(hits)], Len(label) + 1, Len(lines[SetMin(hits)])))

\* the record new_pdf_reader_2020 has just appended for the page in text
NewJustExtracted ==
    /\ script = "new_pdf_reader_2020" /\ pc = "next"
    /\ results # <<>> /\ results[Len(results)].page = pno + 1

\* C2: a numeric field with no token in the page text is never recorded as 0: a monthly
\* maximum stored as 0 has, at its position in the "Maks." row of the page, a token that is
\* a literal zero or KURU.
C2_MissingNeverZero ==
    NewJustExtracted =>
        LET rec == results[Len(results)]
            row == RowTokens(StrippedLines(text), labels[1])
        IN  "max_flow_m3s" \in DOMAIN rec.monthly =>
                \A k \in 1..12 :
                    rec.monthly.max_flow_m3s[k] = Zero =>
                        k <= Len(row) /\ DenotesZero(row[k])

\* C3: for the row 0,54 1,32 0,62 KURU 2,10 ... the record's first month (October) is
\* 0.54 and its fourth month (January) is 0.0 or absent: KURU fills its own position.
C3_KuruKeepsPosition ==
    (NewJustExtracted /\ Strip(lineMaksKuru) \in {StrippedLines(text)[i] : i \in 1..Len(StrippedLines(text))}) =>
        LET rec == results[Len(results)]
        IN  \/ "max_flow_m3s" \notin DOMAIN rec.monthly
            \/ /\ rec.monthly.max_flow_m3s[1] = [m |-> 54, e |-> 2]
               /\ rec.monthly.max_flow_m3s[4] \in {Zero, NoneVal}

\* the records catchment_data_km2 has appended for the page in text
CatchPageRecords == {k \in 1..Len(results) : results[k].page = pno + 1}

\* C4: a page with several station-code lines contributes a record for the first matching
\* station only: after a page of catchment_data_km2, at most one record carries its number.
C4_FirstMatchWins ==
    (script = "catchment_data_km2" /\ pc = "next") => Cardinality(CatchPageRecords) <= 1

\* the station code a line begins with ([DE], two digits, A, three digits), or <<>>
CodeOf(line) ==
    IF /\ Len(line) >= 7
       /\ line[1] \in {"D", "E"} /\ line[2] \in Digit /\ line[3] \in Digit
       /\ line[4] = "A" /\ line[5] \in Digit /\ line[6] \in Digit /\ line[7] \in Digit
    THEN SubSeq(line, 1, 7) ELSE <<>>

\* the code of the first line of the page that begins with a station code, or <<>>
FirstCode(lines) ==
    LET hits == {i \in 1..Len(lines) : CodeOf(lines[i]) # <<>>}
    IN  IF hits = {} THEN <<>> ELSE CodeOf(lines[SetMin(hits)])

\* the first station code ([A-Z], two digits, [A-Z], three digits) anywhere in a line, or <<>>
CodeAnywhere(line) ==
    LET at == {i \in 1..(Len(line) - 6) :
                  /\ line[i] \in AsciiUpper /\ line[i + 1] \in Digit /\ line[i + 2] \in Digit
                  /\ line[i + 3] \in AsciiUpper
                  /\ line[i + 4] \in Digit /\ line[i + 5] \in Digit /\ line[i + 6] \in Digit}
    IN  IF at = {} THEN <<>> ELSE SubSeq(line, SetMin(at), SetMin(at) + 6)

\* the records DSIFinalExtractor has appended for the page in text
FinalPageRecords == {k \in 1..Len(results) : results[k].page = pno + 1}

\* the lines of the page that hold a station code
FinalCodeLines == {i \in 1..Len(text) : CodeAnywhere(text[i]) # <<>>}

\* C5 (as stated): when the first line of the page that holds a station code carries a code
\* outside the target set, the page yields no record, whatever codes appear on later lines.
C5_FirstLineDecides ==
    (script = "dsi_final_structured_extractor" /\ pc = "next"
        /\ FinalCodeLines # {}
        /\ CodeAnywhere(text[SetMin(FinalCodeLines)]) \notin target_stations)
    => FinalPageRecords = {}

\* C5 (amended): a row whose code is outside the target set is skipped and the scan goes on:
\* the page yields the record of the first of its rows 0, 2, ..., 18 that holds a target
\* code, and no record only when none of these rows holds one.
C5_NonTargetLineSkipped ==
    (script = "dsi_final_structured_extractor" /\ pc = "next") =>
        LET rows == {i \in 1..Min(20, Len(text)) :
                        i % 2 = 1 /\ CodeAnywhere(text[i]) \in target_stations}
        IN  IF rows = {} THEN FinalPageRecords = {}
            ELSE \E k \in FinalPageRecords :
                    results[k].station_code = CodeAnywhere(text[SetMin(rows)])

\* a page whose first code line is not a target and that still gave a record
C5_Witness ==
    /\ script = "dsi_final_structured_extractor" /\ pc = "next"
    /\ FinalCodeLines # {}
    /\ CodeAnywhere(text[SetMin(FinalCodeLines)]) \notin target_stations
    /\ FinalPageRecords # {}

\* line i begins with a target code, and the first line that holds the area label among it
\* and the nine lines after it gives, after the colon, a number that float() accepts
CatchCodeLineWithArea(lines, i) ==
    /\ CodeOf(lines[i]) \in TARGET_STATIONS
    /\ LET area == {j \in i..Min(i + 9, Len(lines)) :
                      \/ Contains(Upper(lines[j]), wYAGIS_ALANI)
                      \/ Contains(Upper(lines[j]), wYAGIS_ascii)}
       IN  /\ area # {}
           /\ ReSearch(CatchAreaPat, lines[SetMin(area)]).ok
           /\ IsFloat(catch_clean_num(Group(CatchAreaPat, lines[SetMin(area)],
                                            ReSearch(CatchAreaPat, lines[SetMin(area)]), 1)))

\* C6: for every non-empty stripped line that begins with a station code the locator
\* extracts exactly that code, whatever follows it (including nothing): in
\* catchment_data_km2 every such line with a target code and an area line in reach
\* gives a record with that code.
C6_EveryCodeLineLocated ==
    (script = "catchment_data_km2" /\ pc = "next") =>
        \A i \in 1..Len(StrippedLines(text)) :
            CatchCodeLineWithArea(StrippedLines(text), i) =>
                \E k \in CatchPageRecords :
                    results[k].station_code = CodeOf(StrippedLines(text)[i])

SpecC7 == (InitNew \/ InitSta) /\ [][NextNew \/ NextSta]_vars

\* the station code of a page of new_pdf_reader_2020: the code of the first of the stripped
\* lines 2..5 that holds a code, white space and a name; <<>> when there is none
NewStationCode(lines) ==
    LET hits == {i \in 2..Min(5, Len(lines)) :
                    CodeOf(lines[i]) # <<>> /\ Len(lines[i]) >= 9 /\ lines[i][8] \in WS}
    IN  IF hits = {} THEN <<>> ELSE CodeOf(lines[SetMin(hits)])

SpecC8 == (InitCatch \/ InitFinal \/ InitSta) /\ [][NextCatch \/ NextFinal \/ NextSta]_vars

\* C8 (as stated): a run that ends with zero records has printed a warning and no output
\* file exists (catchment_data_km2 and DSIFinalExtractor).
C8_NoRecordsNoFile ==
    /\ (script = "catchment_data_km2" /\ pc = "done" /\ doc = "closed" /\ results = <<>>) =>
           disk = <<>> /\ stdout[Len(stdout)] = "WARN no records"
    /\ (script = "dsi_final_structured_extractor" /\ pc = "done" /\ seen = {}) =>
           disk = <<>>

\* C8 (amended): catchment_data_km2 writes no file as long as it has no record, and ends a
\* run over a PDF without records with a warning; DSIFinalExtractor and DSIExtractor have
\* their CSV, header included, on disk from construction on, and a DSIFinalExtractor run
\* with zero records ends with the header-only file and without a warning.
C8_FileOnlyWithRecordsOrHeader ==
    /\ script = "catchment_data_km2" =>
          /\ results = <<>> => disk = <<>>
          /\ (pc = "done" /\ doc = "closed" /\ results = <<>>) =>
                 stdout[Len(stdout)] = "WARN no records"
    /\ script = "dsi_final_structured_extractor" =>
          /\ pc # "init" => /\ FinalOutput \in DOMAIN disk
                            /\ disk[FinalOutput].header = FinalHeaders
          /\ (pc = "done" /\ seen = {}) =>
                 /\ disk[FinalOutput].rows = <<>>
                 /\ \A k \in 1..Len(stdout) : stdout[k] \in {"OK initialized CSV",
                                                             "ERROR directory not found",
                                                             "OK CSV updated"}
    /\ script = "extract_dsi_stations" =>
          (pc # "init" => /\ StaOutput \in DOMAIN disk
                          /\ disk[StaOutput].header = StaHeaders)

\* catchment_data_km2 has read at least one page, found no record and ended
C8_Witness ==
    /\ script = "catchment_data_km2" /\ pc = "done" /\ doc = "closed"
    /\ loaded > 0 /\ results = <<>>

\* C9: whatever the pages of an existing PDF hold, the script runs to its end: once
\* catchment_data_km2 has opened its PDF, no exception is raised out of the page loop.
C9_NoUnhandledException ==
    (script = "catchment_data_km2" /\ doc # "none") => (exc = None /\ pc # "raised")

SpecC10 == (InitCatch \/ InitTbl) /\ [][NextCatch \/ NextTbl]_vars

\* the years for which table_below has printed the message m
TblSaid(m) == {stdout[k].year : k \in {k \in 1..Len(stdout) : stdout[k].msg = m}}

\* C10 (as stated): once the message about a missing input file is printed the script has
\* ended: no PDF is open after it and no output file exists (in catchment_data_km2 the
\* message is also the last output).
C10_MissingFileEndsRun ==
    /\ script = "catchment_data_km2" =>
          \A k \in 1..Len(stdout) :
              stdout[k] = "ERROR not found" =>
                  k = Len(stdout) /\ pc = "done" /\ doc = "none" /\ disk = <<>>
    /\ script = "table_below" =>
          \A k \in 1..Len(stdout) :
              stdout[k].msg = "ERROR not found. Skipping" =>
                  doc # "open" /\ disk = <<>>

\* C10 (amended): catchment_data_km2 ends on its missing PDF with the message as its only
\* output, nothing read and nothing written; table_below only skips the missing year: the
\* run ends after every year of YEARS has had its message (not found, no tables or done),
\* and a year has its CSV exactly when it is reported done.
C10_MissingYearSkipped ==
    /\ script = "catchment_data_km2" =>
          \A k \in 1..Len(stdout) :
              stdout[k] = "ERROR not found" =>
                  /\ Len(stdout) = 1 /\ pc = "done"
                  /\ doc = "none" /\ loaded = 0 /\ disk = <<>>
    /\ script = "table_below" =>
          /\ pc = "done" =>
                 \A i \in 1..Len(YEARS) :
                     YEARS[i] \in TblSaid("ERROR not found. Skipping")
                                   \cup TblSaid("WARN no tables") \cup TblSaid("DONE")
          /\ \A i \in 1..Len(YEARS) :
                 TblOutputName(YEARS[i]) \in DOMAIN disk <=> YEARS[i] \in TblSaid("DONE")
          /\ TblSaid("ERROR not found. Skipping") \cap TblSaid("DONE") = {}

\* table_below has found the first PDF missing and has written the CSV of a later year
C10_Witness ==
    /\ script = "table_below" /\ pc = "done"
    /\ YEARS[1] \in TblSaid("ERROR not found. Skipping")
    /\ TblOutputName(YEARS[2]) \in DOMAIN disk

\* C11: every PDF handle a script opens is closed by the time the script ends, on every
\* path through the page loop: when catchment_data_km2 has ended, normally or with an
\* exception, its PDF is not open.
C11_HandleClosedAtEnd ==
    (script = "catchment_data_km2" /\ pc \in {"done", "raised"}) => doc # "open"


\* C12: when the regex of a field matches nothing on a station's page the field is left
\* absent and no placeholder is written in its place: a record of the final extractor taken
\* from a page none of whose lines matches a coordinate pattern has no coordinates value.
C12_UnmatchedFieldAbsent ==
    (script = "dsi_final_structured_extractor" /\ pc = "next") =>
        \A k \in FinalPageRecords :
            (\A i \in 1..Len(text) : IsNone(_extract_coordinates(text[i])))
                => IsNone(results[k].coordinates)


\* C13: a target-station page on which only some fields can be extracted still produces an
\* output row: after a page of catchment_data_km2 with a line that the station pattern
\* matches and that holds a target code, a record with that code carries the number of the
\* page, whether or not an area was found.
C13_PartialPageGivesRow ==
    (script = "catchment_data_km2" /\ pc = "next") =>
        \A i \in 1..Len(StrippedLines(text)) :
            (/\ ReMatch(StationLinePat, StrippedLines(text)[i]).ok
             /\ CodeOf(StrippedLines(text)[i]) \in TARGET_STATIONS)
            => \E k \in CatchPageRecords :
                    results[k].station_code = CodeOf(StrippedLines(text)[i])


(***************************************************************************)
(* The number normalizers, applied to the strings \d+,\d+ with at most     *)
(* MaxDigits digits on each side of the comma.                             *)
(***************************************************************************)
NumDigits == {"0", "1", "5", "9"}

RECURSIVE DigitStrings(_)
DigitStrings(n) ==
    IF n = 0 THEN {<<>>}
    ELSE {Append(s, d) : s \in DigitStrings(n - 1), d \in NumDigits}

DigitRuns == UNION {DigitStrings(n) : n \in 1..MaxDigits}

CommaNumbers == {a \o <<",">> \o b : a \in DigitRuns, b \in DigitRuns}

\* the number a string \d+,\d+ writes once its comma is read as the decimal point
WrittenValue(s) ==
    LET c == CHOOSE i \in 1..Len(s) : s[i] = ","
    IN  Normal(DigitsToNat(SubSeq(s, 1, c - 1) \o SubSeq(s, c + 1, Len(s))), Len(s) - c)

InitNum ==
    /\ script = "normalizer"
    /\ pc = "input"
    /\ text \in {<<s>> : s \in CommaNumbers}
    /\ year = 0
    /\ doc = "none"
    /\ page_count = 0
    /\ pno = 0
    /\ results = <<>>
    /\ disk = <<>>
    /\ stdout = <<>>
    /\ exc = None
    /\ fileno = 0
    /\ seen = {}
    /\ loaded = 0

NumCleanNum ==
    /\ script = "normalizer" /\ pc = "input"
    /\ results' = <<[fn |-> "clean_num", value |-> catch_clean_num(text[1])]>>
    /\ pc' = "returned"
    /\ UNCHANGED <<script, year, doc, page_count, pno, text, disk, stdout, exc, fileno, seen, loaded>>

NumNormalizeNumber ==
    /\ script = "normalizer" /\ pc = "input"
    /\ results' = <<[fn |-> "_normalize_number", value |-> _normalize_number(text[1])]>>
    /\ pc' = "returned"
    /\ UNCHANGED <<script, year, doc, page_count, pno, text, disk, stdout, exc, fileno, seen, loaded>>

NumExtractNumber ==
    /\ script = "normalizer" /\ pc = "input"
    /\ results' = <<[fn |-> "extract_number", value |-> extract_number(text[1])]>>
    /\ pc' = "returned"
    /\ UNCHANGED <<script, year, doc, page_count, pno, text, disk, stdout, exc, fileno, seen, loaded>>

NextNum == NumCleanNum \/ NumNormalizeNumber \/ NumExtractNumber

SpecNum == InitNum /\ [][NextNum]_vars

\* C14: for every string of one or more digits, one comma and one or more digits, each
\* normalizer returns the float equal to the number the string writes with its comma
\* replaced by a dot.
C14_CommaDecimalNormalized ==
    (script = "normalizer" /\ pc = "returned") =>
        results[1].value = WrittenValue(text[1])

\* extract_number has returned 10.05 for "10,05"
C14_Witness ==
    /\ script = "normalizer" /\ pc = "returned"
    /\ text = << <<"1", "0", ",", "0", "5">> >>
    /\ results[1].fn = "extract_number"
    /\ results[1].value = [m |-> 1005, e |-> 2]


(***************************************************************************)
(* The CSV round trip of the final extractor: csv.writer cells written by  *)
(* _append_to_csv, read back by pandas.read_csv.                           *)
(***************************************************************************)
RECURSIVE DoubleQuotes(_)
DoubleQuotes(s) ==
    IF s = <<>> THEN <<>>
    ELSE (IF Head(s) = "\"" THEN <<"\"", "\"">> ELSE <<Head(s)>>) \o DoubleQuotes(Tail(s))

RECURSIVE HalveQuotes(_)
HalveQuotes(s) ==
    IF s = <<>> THEN <<>>
    ELSE IF Len(s) >= 2 /\ s[1] = "\"" /\ s[2] = "\"" THEN <<"\"">> \o HalveQuotes(Tail(Tail(s)))
    ELSE <<Head(s)>> \o HalveQuotes(Tail(s))

\* repr of a float: 210.0, 0.54
FloatRepr(v) ==
    LET ds  == NatStr(v.m)
        pad == [k \in 1..(IF Len(ds) > v.e THEN 0 ELSE v.e + 1 - Len(ds)) |-> "0"] \o ds
    IN  IF v.e = 0 THEN ds \o <<".", "0">>
        ELSE SubSeq(pad, 1, Len(pad) - v.e) \o <<".">> \o SubSeq(pad, Len(pad) - v.e + 1, Len(pad))

\* the cell csv.writer writes for a value: None is the empty cell, a text is quoted when
\* it holds a comma, a quote or a line break
CsvCell(v) ==
    IF IsNone(v) THEN <<>>
    ELSE IF IsFloat(v) THEN FloatRepr(v)
    ELSE IF \E i \in 1..Len(v.str) : v.str[i] \in {",", "\"", "\n"}
         THEN <<"\"">> \o DoubleQuotes(v.str) \o <<"\"">>
         ELSE v.str

\* cells pandas.read_csv reads as missing
NaValues == {<<>>, <<"N", "/", "A">>, <<"N", "A">>, <<"N", "U", "L", "L">>, <<"N", "a", "N">>,
             <<"N", "o", "n", "e">>, <<"n", "/", "a">>, <<"n", "a", "n">>,
             <<"n", "u", "l", "l">>}

\* the value pandas.read_csv gives for a cell
ReadCell(c) ==
    LET s == IF Len(c) >= 2 /\ Head(c) = "\"" THEN HalveQuotes(SubSeq(c, 2, Len(c) - 1)) ELSE c
    IN  IF s \in NaValues THEN NoneVal
        ELSE IF FloatOk(s) THEN PyFloat(s)
        ELSE Text(s)

\* the cells of the row of a record, by column, and what is read back from them
FinalRowCells(r) ==
    [page |-> NatStr(r.page), year |-> NatStr(r.year),
     station_code |-> CsvCell(Text(r.station_code)),
     station_name |-> CsvCell(r.station_name),
     coordinates |-> CsvCell(r.coordinates),
     catchment_area_km2 |-> CsvCell(r.catchment_area_km2),
     annual_avg_flow_m3s |-> CsvCell(r.annual_avg_flow_m3s),
     annual_total_m3 |-> CsvCell(r.annual_total_m3),
     mm_total |-> CsvCell(r.mm_total),
     avg_ltsnkm2 |-> CsvCell(r.avg_ltsnkm2)]

FinalRowValues(r) ==
    [page |-> [m |-> r.page, e |-> 0], year |-> [m |-> r.year, e |-> 0],
     station_code |-> Text(r.station_code),
     station_name |-> r.station_name,
     coordinates |-> r.coordinates,
     catchment_area_km2 |-> r.catchment_area_km2,
     annual_avg_flow_m3s |-> r.annual_avg_flow_m3s,
     annual_total_m3 |-> r.annual_total_m3,
     mm_total |-> r.mm_total,
     avg_ltsnkm2 |-> r.avg_ltsnkm2]

\* C15: for every record an extractor can produce, writing it to CSV and reading it back
\* yields the same value in every field, text fields and absent fields included: every row
\* of the CSV of the final extractor is read back by pandas.read_csv with the values of the
\* record it was written from, in the metadata columns and in the 72 monthly columns.
C15_CsvRoundTrip ==
    (script = "dsi_final_structured_extractor" /\ FinalOutput \in DOMAIN disk) =>
        \A k \in 1..Len(disk[FinalOutput].rows) :
            LET r == disk[FinalOutput].rows[k]
            IN  /\ \A f \in DOMAIN FinalRowCells(r) :
                      ReadCell(FinalRowCells(r)[f]) = FinalRowValues(r)[f]
                /\ \A mt \in DOMAIN r.monthly : \A j \in 1..12 :
                      ReadCell(CsvCell(r.monthly[mt][j])) = r.monthly[mt][j]


\* C16: every output CSV starts with a header row of fixed column names that includes
\* station_code and year: the header of every file catchment_data_km2 has written holds
\* both columns.
C16_HeaderHasCodeAndYear ==
    script = "catchment_data_km2" =>
        \A f \in DOMAIN disk :
            {"station_code", "year"} \subseteq
                {disk[f].header[k] : k \in 1..Len(disk[f].header)}


\* the row StaPageRow gives for page t of the yearbook of y, read from StaTable
StaRowOf(t, y) == (CHOOSE e \in StaTable : e.y = y /\ e.t = t).r

\* C17: records are accumulated in memory and the output CSV is written once, after all
\* pages have been processed: no step taken while the PDF is open and stays open (a page
\* being scanned, the loop moving on) changes a file on disk.
C17_WrittenAfterAllPages ==
    [][(doc = "open" /\ doc' = "open") => disk' = disk]_vars

\* C17 (amended): new_pdf_reader_2020 accumulates its records and writes nothing while its
\* PDF is open; DSIExtractor.process_pdf appends the row of a page to the CSV in the
\* iteration that scanned the page, and writes nothing else while the PDF is open.
C17_AppendedPageByPage ==
    [][(doc = "open" /\ doc' = "open") =>
         IF script = "extract_dsi_stations" /\ pc = "pages" /\ ~IsNone(StaRowOf(text', year))
         THEN disk' = [disk EXCEPT ![StaOutput].rows = Append(@, StaRowOf(text', year))]
         ELSE disk' = disk]_vars

\* DSIExtractor has the row of the page it just scanned on disk while a page is still to come
C17_Witness ==
    /\ script = "extract_dsi_stations" /\ pc = "next" /\ doc = "open"
    /\ pno + 1 < page_count
    /\ ~IsNone(StaRowOf(text, year))
    /\ Len(disk[StaOutput].rows) > 0
    /\ disk[StaOutput].rows[Len(disk[StaOutput].rows)] = StaRowOf(text, year)


(***************************************************************************)
(* parse_station_page with its five per-field extraction calls taken one   *)
(* at a time, in any order.  seen holds the calls already made, in the     *)
(* order they were made, results the fields filled so far.                 *)
(***************************************************************************)
FieldCalls == {"extract_catchment_info", "extract_observation_period",
               "extract_avg_annual_flow", "extract_monthly_data", "extract_annual_totals"}

\* what parse_station_page returns for page t of the yearbook of y, read from NewTable
NewResultOf(t, y) == (CHOOSE e \in NewTable : e.y = y /\ e.t = t).r

InitCalls ==
    /\ script = "parse_station_page"
    /\ pc = "start"
    /\ year = 2020
    /\ text \in NewPages
    /\ doc = "none"
    /\ page_count = 0
    /\ pno = 0
    /\ results = <<>>
    /\ disk = <<>>
    /\ stdout = <<>>
    /\ exc = None
    /\ fileno = 0
    /\ seen = <<>>
    /\ loaded = 0

\* the head of parse_station_page: region test, region name, station info, allowed list
CallsStart ==
    /\ script = "parse_station_page" /\ pc = "start"
    /\ LET lines == StrippedLines(text)
           info  == extract_station_info(SubSeq(lines, 2, Min(5, Len(lines))), 1)
           m     == ReMatch(RegionNamePat, lines[1])
       IN  IF \/ lines = <<>>
              \/ ~is_valid_region(lines[1])
              \/ IsNone(info)
              \/ info.station_code \notin ALLOWED_STATIONS
           THEN /\ results' = <<NoneVal>>
                /\ pc' = "returned"
           ELSE /\ results' = <<[file |-> <<>>, page |-> 0,
                                 region_name |-> IF m.ok
                                                 THEN Strip(Group(RegionNamePat, lines[1], m, 1))
                                                 ELSE lines[1],
                                 year |-> year,
                                 station_code |-> info.station_code,
                                 station_name |-> info.station_name]>>
                /\ pc' = "calls"
    /\ UNCHANGED <<script, year, doc, page_count, pno, text, disk, stdout, exc, fileno, seen, loaded>>

\* one call has returned fields, or has raised exception e (None: it returned)
CallDone(call, fields, e) ==
    /\ script = "parse_station_page" /\ pc = "calls" /\ call \notin {seen[k] : k \in 1..Len(seen)}
    /\ IF e # None
       THEN /\ exc' = e
            /\ pc' = "raised"
            /\ UNCHANGED <<results, seen>>
       ELSE /\ results' = <<fields @@ results[1]>>
            /\ seen' = Append(seen, call)
            /\ UNCHANGED <<exc, pc>>
    /\ UNCHANGED <<script, year, doc, page_count, pno, text, disk, stdout, fileno, loaded>>

CallCatchmentInfo ==
    LET c == extract_catchment_info(StrippedLines(text))
    IN  CallDone("extract_catchment_info",
                 [catchment_area_km2 |-> c.catchment, estimated_elevation_m |-> c.elevation],
                 FirstRaised(<<c.catchment, c.elevation>>))

CallObservationPeriod ==
    CallDone("extract_observation_period",
             [observation_period |-> extract_observation_period(StrippedLines(text))], None)

CallAvgAnnualFlow ==
    LET f == extract_avg_annual_flow(StrippedLines(text))
    IN  CallDone("extract_avg_annual_flow", [avg_annual_flow_m3s |-> f], FirstRaised(<<f>>))

\* extract_monthly_data finding no table left once extract_annual_totals has run
CallMonthlyData_consumed ==
    CallDone("extract_monthly_data",
             [monthly |-> IF "extract_annual_totals" \in {seen[k] : k \in 1..Len(seen)}
                          THEN extract_monthly_data(<<>>)
                          ELSE extract_monthly_data(StrippedLines(text))], None)

CallMonthlyData ==
    CallDone("extract_monthly_data",
             [monthly |-> extract_monthly_data(StrippedLines(text))], None)

CallAnnualTotals ==
    LET a == extract_annual_totals(StrippedLines(text))
    IN  CallDone("extract_annual_totals",
                 [annual_total_flow_m3 |-> a.total_flow, annual_mm |-> a.mm,
                  annual_lt_sn_km2 |-> a.lt_sn_km2],
                 FirstRaised(<<a.total_flow, a.mm, a.lt_sn_km2>>))

\* every call has been made: the dictionary is returned
CallsReturn ==
    /\ script = "parse_station_page" /\ pc = "calls" /\ Len(seen) = Cardinality(FieldCalls)
    /\ pc' = "returned"
    /\ UNCHANGED <<script, year, doc, page_count, pno, text, results, disk, stdout, exc, fileno,
                   seen, loaded>>

NextCalls ==
    \/ CallsStart
    \/ CallCatchmentInfo
    \/ CallObservationPeriod
    \/ CallAvgAnnualFlow
    \/ CallMonthlyData
    \/ CallAnnualTotals
    \/ CallsReturn

SpecCalls == InitCalls /\ [][NextCalls]_vars

\* C18: the record extracted from a page does not depend on the order of the per-field
\* extraction calls: whichever order the five calls of parse_station_page are made in, the
\* record returned is the one the order of the code returns, and no record is returned
\* exactly when the order of the code returns none.
C18_CallOrderIrrelevant ==
    (script = "parse_station_page") =>
        /\ pc = "returned" => /\ NewResultOf(text, year).exc = None
                              /\ results[1] = NewResultOf(text, year).rec
        /\ pc = "raised" => NewResultOf(text, year).exc # None

\* a record with monthly values returned after the calls were made in the reverse of the
\* order of the code
C18_Witness ==
    /\ script = "parse_station_page" /\ pc = "returned"
    /\ seen = <<"extract_annual_totals", "extract_monthly_data", "extract_avg_annual_flow",
                "extract_observation_period", "extract_catchment_info">>
    /\ ~IsNone(results[1])
    /\ results[1] = NewResultOf(text, year).rec
    /\ results[1].monthly # extract_monthly_data(<<>>)


(***************************************************************************)
(* The header-line functions applied to pages that hold the two lines the  *)
(* docstrings give as the expected format.                                 *)
(***************************************************************************)
\* "D22A093 TURNASUYU CUMHURIYET KOYU" (with dotted capital I and the umlauts)
nameTurnasuyu ==
    Sp(Sp(<<"T", "U", "R", "N", "A", "S", "U", "Y", "U">>,
          <<"C", "U", "M", "H", "U", "R", "I~", "Y", "E", "T">>), <<"K", "O~", "Y", "U~">>)
lineTurnasuyu == Sp(codeD22A093, nameTurnasuyu)

\* re.sub(r'\s+', ' ', s)
RECURSIVE CollapseWs(_)
CollapseWs(s) ==
    IF s = <<>> THEN <<>>
    ELSE IF Head(s) \in WS
         THEN IF Len(s) >= 2 /\ s[2] \in WS THEN CollapseWs(Tail(s))
              ELSE <<" ">> \o CollapseWs(Tail(s))
         ELSE <<Head(s)>> \o CollapseWs(Tail(s))

\* parse_station_info keeping the code in the name
parse_station_info_keep_code(line) ==
    LET m == ReSearch(StationCodePat, line)
    IN  IF m.ok THEN [station_code |-> SubSeq(line, m.start, m.start + 6),
                      station_name |-> Strip(CollapseWs(Strip(line)))]
        ELSE NoneVal

\* parse_station_info of pdf_flow_extractor.py: code and name, or None for (None, None)
parse_station_info(line) ==
    LET m    == ReSearch(StationCodePat, line)
        code == SubSeq(line, m.start, m.start + 6)
    IN  IF m.ok THEN [station_code |-> code,
                      station_name |-> Strip(CollapseWs(Strip(RemoveAll(line, code))))]
        ELSE NoneVal

HeaderPages == PagesOver({lineTurnasuyu, lineStationOther, lineArea, lineAreaThousands})

InitHeader ==
    /\ script = "header_functions"
    /\ pc = "input"
    /\ text \in HeaderPages
    /\ year = 2020
    /\ doc = "none"
    /\ page_count = 0
    /\ pno = 0
    /\ results = <<>>
    /\ disk = <<>>
    /\ stdout = <<>>
    /\ exc = None
    /\ fileno = 0
    /\ seen = {}
    /\ loaded = 0

\* extract_catchment_info(lines) of new_pdf_reader_2020
HeaderCatchmentInfo ==
    /\ script = "header_functions" /\ pc = "input"
    /\ results' = <<[fn |-> "extract_catchment_info", value |-> extract_catchment_info(text)]>>
    /\ pc' = "returned"
    /\ UNCHANGED <<script, year, doc, page_count, pno, text, disk, stdout, exc, fileno, seen, loaded>>

\* DSIFinalExtractor._extract_catchment_area on one line of the page
HeaderCatchmentArea ==
    /\ script = "header_functions" /\ pc = "input"
    /\ \E i \in 1..Len(text) :
         results' = <<[fn |-> "_extract_catchment_area", line |-> i,
                       value |-> _extract_catchment_area(text[i])]>>
    /\ pc' = "returned"
    /\ UNCHANGED <<script, year, doc, page_count, pno, text, disk, stdout, exc, fileno, seen, loaded>>

\* extract_station_info(lines) of new_pdf_reader_2020
HeaderStationInfo ==
    /\ script = "header_functions" /\ pc = "input"
    /\ results' = <<[fn |-> "extract_station_info", value |-> extract_station_info(text, 1)]>>
    /\ pc' = "returned"
    /\ UNCHANGED <<script, year, doc, page_count, pno, text, disk, stdout, exc, fileno, seen, loaded>>

\* parse_station_info(line) of pdf_flow_extractor on one line of the page
HeaderParseStationInfo ==
    /\ script = "header_functions" /\ pc = "input"
    /\ \E i \in 1..Len(text) :
         results' = <<[fn |-> "parse_station_info", line |-> i,
                       value |-> parse_station_info(text[i])]>>
    /\ pc' = "returned"
    /\ UNCHANGED <<script, year, doc, page_count, pno, text, disk, stdout, exc, fileno, seen, loaded>>

NextHeader ==
    \/ HeaderCatchmentInfo
    \/ HeaderCatchmentArea
    \/ HeaderStationInfo
    \/ HeaderParseStationInfo

SpecHeader == InitHeader /\ [][NextHeader]_vars

\* index of the first line of the page that holds the area label, or 0
FirstAreaLine(lines) ==
    FirstLine(lines, LAMBDA ln : Contains(ln, wYAGIS_ALANI) \/ Contains(ln, wYAGIS_ascii))

\* C19: for the input line "YAGIS ALANI : 210,00 km2 YAKLASIK KOT : 404 m" the extracted
\* catchment area is 210.0, not the elevation figure 404: extract_catchment_info on a page
\* whose first area line is this line, and _extract_catchment_area on the line, give 210.0.
C19_AreaNotElevation ==
    (script = "header_functions" /\ pc = "returned") =>
        /\ (/\ results[1].fn = "extract_catchment_info"
            /\ FirstAreaLine(text) > 0
            /\ text[FirstAreaLine(text)] = lineArea)
           => results[1].value.catchment = [m |-> 210, e |-> 0]
        /\ (/\ results[1].fn = "_extract_catchment_area"
            /\ text[results[1].line] = lineArea)
           => results[1].value = [m |-> 210, e |-> 0]

\* extract_catchment_info has returned (210.0, 404.0) for the line
C19_Witness ==
    /\ script = "header_functions" /\ pc = "returned"
    /\ results[1].fn = "extract_catchment_info"
    /\ text = <<lineArea>>
    /\ results[1].value = [catchment |-> [m |-> 210, e |-> 0], elevation |-> [m |-> 404, e |-> 0]]

\* index of the first line of the page that extract_station_info accepts, or 0
FirstStationLine(lines) ==
    FirstLine(lines, LAMBDA ln : Strip(ln) # <<>> /\ ReMatch(StationInfoPat, Strip(ln)).ok)

\* C20: for the input line "D22A093 TURNASUYU CUMHURIYET KOYU" the extracted station_code
\* is "D22A093" and the station_name the remainder of the line: extract_station_info on a
\* page whose first station line is this line, and parse_station_info on the line, give
\* that code and that name.
C20_CodeAndName ==
    (script = "header_functions" /\ pc = "returned") =>
        /\ (/\ results[1].fn = "extract_station_info"
            /\ FirstStationLine(text) > 0
            /\ text[FirstStationLine(text)] = lineTurnasuyu)
           => results[1].value = [station_code |-> codeD22A093, station_name |-> nameTurnasuyu]
        /\ (/\ results[1].fn = "parse_station_info"
            /\ text[results[1].line] = lineTurnasuyu)
           => results[1].value = [station_code |-> codeD22A093, station_name |-> nameTurnasuyu]

\* parse_station_info has returned the code and the name for the line
C20_Witness ==
    /\ script = "header_functions" /\ pc = "returned"
    /\ results[1].fn = "parse_station_info"
    /\ text = <<lineTurnasuyu>>
    /\ results[1].value = [station_code |-> codeD22A093, station_name |-> nameTurnasuyu]


(***************************************************************************)
(* fill_missing_values_by_station.py.  A table is a sequence of rows       *)
(* [station_code, year, v] where v is the cell of the column being filled: *)
(* a flow in sixtieths (60 is 1.0) or Nan for a missing cell.              *)
(***************************************************************************)
MaxRows == 3
Nan == -1

FillColumns == {"annual_avg_flow_m3s", "oct_flow_max_m3", "catchment_area_km2"}
FillStationCodes == {"D22A093", "E22A065"}
FillYears == {2019, 2020}
FillCells == {Nan, 60, 180}

FillTables ==
    UNION {[1..n -> [station_code : FillStationCodes, year : FillYears, v : FillCells]] :
              n \in 0..MaxRows}

\* station_data.sort_values('year'): the row labels of the set S in the order of the years,
\* rows of one year in the order of the file
RECURSIVE SortByYear(_, _)
SortByYear(T, S) ==
    IF S = {} THEN <<>>
    ELSE LET i == CHOOSE i \in S : \A j \in S : \/ T[i].year < T[j].year
                                              \/ (T[i].year = T[j].year /\ i <= j)
         IN  <<i>> \o SortByYear(T, S \ {i})

\* positions of the nearest valid cells before and after position k (0: none)
PrevValid(vals, k) == LET P == {j \in 1..(k - 1) : vals[j] # Nan} IN IF P = {} THEN 0 ELSE SetMax(P)
NextValid(vals, k) ==
    LET P == {j \in (k + 1)..Len(vals) : vals[j] # Nan} IN IF P = {} THEN 0 ELSE SetMin(P)

\* Series.interpolate(method='linear'): equally spaced rows; cells after the last valid one
\* take its value, cells before the first valid one stay missing
Interpolate(vals) ==
    [k \in 1..Len(vals) |->
        LET p == PrevValid(vals, k)
            n == NextValid(vals, k)
        IN  IF vals[k] # Nan THEN vals[k]
            ELSE IF p = 0 THEN Nan
            ELSE IF n = 0 THEN vals[p]
            ELSE vals[p] + ((vals[n] - vals[p]) * (k - p)) \div (n - p)]

FFill(vals) ==
    [k \in 1..Len(vals) |->
        IF vals[k] # Nan \/ PrevValid(vals, k) = 0 THEN vals[k] ELSE vals[PrevValid(vals, k)]]

BFill(vals) ==
    [k \in 1..Len(vals) |->
        IF vals[k] # Nan \/ NextValid(vals, k) = 0 THEN vals[k] ELSE vals[NextValid(vals, k)]]

\* Series.median(skipna=True) of a series with at least one valid cell
Median(vals) ==
    LET valid == SelectSeq(vals, LAMBDA x : x # Nan)
        n     == Len(valid)
        \* the k-th smallest valid cell
        Kth(k) == CHOOSE x \in {valid[j] : j \in 1..n} :
                     /\ Cardinality({j \in 1..n : valid[j] < x}) < k
                     /\ Cardinality({j \in 1..n : valid[j] <= x}) >= k
    IN  IF n % 2 = 1 THEN Kth((n + 1) \div 2)
        ELSE (Kth(n \div 2) + Kth(n \div 2 + 1)) \div 2

\* the body of "for col in numerical_cols" for one column of one station
FillColumn(col, vals) ==
    IF \A k \in 1..Len(vals) : vals[k] # Nan THEN vals
    ELSE IF col = "annual_avg_flow_m3s" THEN BFill(FFill(Interpolate(vals)))
    ELSE IF col = "oct_flow_max_m3" THEN BFill(FFill(vals))
    ELSE IF \A k \in 1..Len(vals) : vals[k] = Nan THEN vals
    ELSE [k \in 1..Len(vals) |-> IF vals[k] = Nan THEN Median(vals) ELSE vals[k]]

\* a mask that selects every row of the table
StationMask_any(T, station) == DOMAIN T

\* station_mask = df['station_code'] == station
StationMask(T, station) == {i \in DOMAIN T : T[i].station_code = station}

\* the body of "for station in stations": the table after the station is processed
FillStation(col, T, station) ==
    LET ix     == SortByYear(T, StationMask(T, station))
        filled == FillColumn(col, [k \in 1..Len(ix) |-> T[ix[k]].v])
    IN  IF Len(ix) < 2 THEN T
        ELSE [i \in DOMAIN T |->
                 IF \E k \in 1..Len(ix) : ix[k] = i
                 THEN [T[i] EXCEPT !.v = filled[CHOOSE k \in 1..Len(ix) : ix[k] = i]]
                 ELSE T[i]]

\* df['station_code'].unique(): the codes in the order of their first rows
Unique(T) ==
    LET first == {i \in DOMAIN T : \A j \in 1..(i - 1) : T[j].station_code # T[i].station_code}
    IN  [k \in 1..Cardinality(first) |->
            T[CHOOSE i \in first : Cardinality({j \in first : j < i}) = k - 1].station_code]

RECURSIVE FillFrom(_, _, _, _)
FillFrom(col, T, stations, k) ==
    IF k > Len(stations) THEN T
    ELSE FillFrom(col, FillStation(col, T, stations[k]), stations, k + 1)

\* the table fill_missing_values_by_station saves for the table it loaded
fill_missing_values_by_station(col, T) == FillFrom(col, T, Unique(T), 1)


InitFill ==
    /\ script = "fill_missing_values_by_station"
    /\ pc = "loaded"
    /\ text \in FillTables
    /\ year = 0
    /\ doc = "none"
    /\ page_count = 0
    /\ pno = 0
    /\ results = <<>>
    /\ disk = <<>>
    /\ stdout = <<>>
    /\ exc = None
    /\ fileno = 0
    /\ seen = {}
    /\ loaded = 0

\* the station loop over the table loaded, for one numerical column
FillRun ==
    /\ script = "fill_missing_values_by_station" /\ pc = "loaded"
    /\ \E col \in FillColumns :
         results' = <<[col |-> col, out |-> fill_missing_values_by_station(col, text)]>>
    /\ pc' = "filled"
    /\ UNCHANGED <<script, year, doc, page_count, pno, text, disk, stdout, exc, fileno, seen, loaded>>

\* the same run over a table that differs in the year and the cell of one row of a station
\* other than the station watched, D22A093
FillRunOtherData ==
    /\ script = "fill_missing_values_by_station" /\ pc = "filled"
    /\ \E station \in {"D22A093"}, i \in DOMAIN text, y \in FillYears, v \in FillCells :
         /\ text[i].station_code # station
         /\ disk' = [station |-> station,
                     table   |-> [text EXCEPT ![i].year = y, ![i].v = v],
                     out     |-> fill_missing_values_by_station(
                                     results[1].col, [text EXCEPT ![i].year = y, ![i].v = v])]
    /\ pc' = "compared"
    /\ UNCHANGED <<script, year, doc, page_count, pno, text, results, stdout, exc, fileno, seen,
                   loaded>>

NextFill == FillRun \/ FillRunOtherData

SpecFill == InitFill /\ [][NextFill]_vars

\* C21: every value written into a missing cell is computed only from rows of the same
\* station_code: two runs over tables that differ only in the data of a row of another
\* station leave the same cells in the rows of the station watched.
C21_FilledFromOwnStation ==
    (script = "fill_missing_values_by_station" /\ pc = "compared") =>
        \A i \in DOMAIN text :
            text[i].station_code = disk.station => results[1].out[i].v = disk.out[i].v

\* a missing cell of the station watched was filled from the rows of that station, while a
\* cell of the other station was changed from 1.0 to 3.0
C21_Witness ==
    /\ script = "fill_missing_values_by_station" /\ pc = "compared"
    /\ results[1].col = "annual_avg_flow_m3s"
    /\ Len(text) = 3
    /\ \E i \in DOMAIN text :
         /\ text[i].station_code = disk.station
         /\ text[i].v = Nan
         /\ results[1].out[i].v = 60
         /\ disk.out[i].v = 60
    /\ \E j \in DOMAIN text :
         /\ text[j].station_code # disk.station
         /\ text[j].v = 60 /\ disk.table[j].v = 180


(***************************************************************************)
(* fix_monthly_data_shift_correct.py.  A table is a sequence of rows; a    *)
(* row gives, for each metric, the twelve monthly cells from October to    *)
(* September, each a value in sixtieths or Nan.                            *)
(***************************************************************************)
monthly_metrics == {"flow_max_m3", "flow_min_m3"}

\* the cells of a metric in which exactly the months of S hold a value; the value of
\* month k is 20 * k + 4 thousandths (0.024 for October), so that every value tells the
\* month it was extracted for and has three decimals, as the values of the yearbooks have
SeriesOf(S) == [k \in 1..12 |-> IF k \in S THEN 20 * k + 4 ELSE Nan]

\* rows of the input file: any months present in flow_max_m3; flow_min_m3 complete or
\* without October
ShiftRows ==
    {[flow_max_m3 |-> SeriesOf(S), flow_min_m3 |-> SeriesOf(R)] :
        S \in SUBSET (1..12), R \in {1..12, 2..12}}

\* a second row, with October, November and August missing in flow_max_m3
ShiftSecondRow == [flow_max_m3 |-> SeriesOf(3..10 \cup {12}), flow_min_m3 |-> SeriesOf(1..12)]

ShiftTables == {<<r>> : r \in ShiftRows} \cup {<<r, ShiftSecondRow>> : r \in ShiftRows}

\* the body of "if pd.isna(row[oct_col])": the twelve cells written back to the row
ShiftedValues(current_values) ==
    LET shifted_values == <<Nan>> \o SubSeq(current_values, 1, 11)
        oct_val == shifted_values[1]
        dec_val == shifted_values[3]
        sep     == IF oct_val # Nan /\ dec_val # Nan THEN (oct_val + dec_val) \div 2
                   ELSE IF oct_val # Nan THEN oct_val
                   ELSE IF dec_val # Nan THEN dec_val
                   ELSE shifted_values[12]
    IN  [shifted_values EXCEPT ![12] = sep]

\* the loops over the rows and the metrics of fix_monthly_data_shift
fix_monthly_data_shift(df) ==
    [idx \in DOMAIN df |->
        [metric \in monthly_metrics |->
            IF df[idx][metric][1] = Nan THEN ShiftedValues(df[idx][metric])
            ELSE df[idx][metric]]]

InitShift ==
    /\ script = "fix_monthly_data_shift"
    /\ pc = "loaded"
    /\ text \in ShiftTables
    /\ year = 0
    /\ doc = "none"
    /\ page_count = 0
    /\ pno = 0
    /\ results = <<>>
    /\ disk = <<>>
    /\ stdout = <<>>
    /\ exc = None
    /\ fileno = 0
    /\ seen = {}
    /\ loaded = 0

\* fix_monthly_data_shift on the file loaded: results is the corrected table
ShiftFix ==
    /\ script = "fix_monthly_data_shift" /\ pc = "loaded"
    /\ results' = fix_monthly_data_shift(text)
    /\ pc' = "fixed"
    /\ UNCHANGED <<script, year, doc, page_count, pno, text, disk, stdout, exc, fileno, seen, loaded>>

\* the per-row shift applied to the table it produced: disk holds the outcome
ShiftFixAgain ==
    /\ script = "fix_monthly_data_shift" /\ pc = "fixed"
    /\ disk' = [corrected |-> fix_monthly_data_shift(results)]
    /\ pc' = "fixed twice"
    /\ UNCHANGED <<script, year, doc, page_count, pno, text, results, stdout, exc, fileno, seen,
                   loaded>>

\* round(sep_val, 2) of a value in thousandths: the nearest hundredth, a tie to the even one
Round2(v) ==
    LET q == v \div 10
        r == v % 10
    IN  IF r < 5 THEN 10 * q
        ELSE IF r > 5 THEN 10 * (q + 1)
        ELSE IF q % 2 = 0 THEN 10 * q ELSE 10 * (q + 1)

\* round_calculated_averages: df_original is the backup taken before the shift, df_current
\* the corrected file; the September cell is rounded where the original October is empty
round_calculated_averages(df_original, df_current) ==
    [idx \in DOMAIN df_current |->
        [metric \in monthly_metrics |->
            IF df_original[idx][metric][1] = Nan /\ df_current[idx][metric][12] # Nan
            THEN [df_current[idx][metric] EXCEPT ![12] = Round2(@)]
            ELSE df_current[idx][metric]]]

\* round_calculated_averages on the corrected file and its backup: disk holds the rounded file
ShiftRound ==
    /\ script = "fix_monthly_data_shift" /\ pc = "fixed"
    /\ disk' = [rounded |-> round_calculated_averages(text, results)]
    /\ pc' = "rounded"
    /\ UNCHANGED <<script, year, doc, page_count, pno, text, results, stdout, exc, fileno, seen,
                   loaded>>

NextShift == ShiftFix \/ ShiftFixAgain \/ ShiftRound

SpecShift == InitShift /\ [][NextShift]_vars

\* C22: for every row and metric whose October cell is empty, after the fix the October
\* cell holds the value that was in the November cell and the November cell the value that
\* was in the December cell.
C22_OctoberGetsNovember ==
    (script = "fix_monthly_data_shift" /\ pc = "fixed") =>
        \A idx \in DOMAIN text : \A metric \in monthly_metrics :
            text[idx][metric][1] = Nan =>
                /\ results[idx][metric][1] = text[idx][metric][2]
                /\ results[idx][metric][2] = text[idx][metric][3]


\* C26: the monthly shift fix never discards an extracted value: for every row and metric,
\* each non-empty monthly value present before the fix is still present in some month of
\* that row and metric after the fix.
C26_NoValueDiscarded ==
    (script = "fix_monthly_data_shift" /\ pc = "fixed") =>
        \A idx \in DOMAIN text : \A metric \in monthly_metrics : \A k \in 1..12 :
            text[idx][metric][k] # Nan =>
                \E j \in 1..12 : results[idx][metric][j] = text[idx][metric][k]

\* C27: the monthly shift fix is idempotent: applying the per-row shift a second time to
\* the table it produced changes no cell.
C27_ShiftIdempotent ==
    (script = "fix_monthly_data_shift" /\ pc = "fixed twice") => disk.corrected = results


\* C23: round_calculated_averages rounds only cells that hold a calculated average: every
\* cell of the output that holds an originally extracted value (a value extracted for that
\* row and metric) is equal to the same cell of the input file.
C23_ExtractedCellsUnchanged ==
    (script = "fix_monthly_data_shift" /\ pc = "rounded") =>
        \A idx \in DOMAIN results : \A metric \in monthly_metrics : \A k \in 1..12 :
            (/\ results[idx][metric][k] # Nan
             /\ \E j \in 1..12 : text[idx][metric][j] = results[idx][metric][k]) =>
                disk.rounded[idx][metric][k] = results[idx][metric][k]


(***************************************************************************)
(* extract_dsi_2000_coordinates.py: process_pdf reads the station codes of *)
(* the output CSV, scans the pages for region / station / coordinate lines *)
(* and appends the stations it found to the CSV.                           *)
(***************************************************************************)

\* r'^(14|22)\.' and "HAVZASI" in line.upper()
RegionPrefixAlts == <<Lit(<<"1", "4", ".">>), Lit(<<"2", "2", ".">>)>>
is_target_region(line) ==
    IF \E k \in 1..2 : ReMatch(RegionPrefixAlts[k], Strip(line)).ok
    THEN Contains(Upper(line), <<"H", "A", "V", "Z", "A", "S", "I">>)
    ELSE FALSE

\* r'^([DE]\d{2}[A-Z]\d{3})\s+(.+)$': the code and the name, or None, None
CoordStationPat ==
    <<One({"D", "E"}, 1), Rep(Digit, 2, 1), One(AsciiUpper, 1), Rep(Digit, 3, 1),
      Plus(WS, 0), Plus(AnyChar, 2)>>
coord_extract_station_info(line) ==
    LET s == Strip(line)
        m == ReMatch(CoordStationPat, s)
    IN  IF m.ok /\ MatchEnd(CoordStationPat, m) = Len(s) + 1
        THEN <<Group(CoordStationPat, s, m, 1), Group(CoordStationPat, s, m, 2)>>
        ELSE <<NoneVal, NoneVal>>

\* r'(\d+deg\d+\'\d+")\s+Dogu\s+-\s+(\d+deg\d+\'\d+")\s+Kuzey'
CoordLinePat ==
    <<Plus(Digit, 1), One({"deg"}, 1), Plus(Digit, 1), One({"'"}, 1), Plus(Digit, 1),
      One({"dq"}, 1), Plus(WS, 0)>> \o Lit(wDogu)
    \o <<Plus(WS, 0), One({"-"}, 0), Plus(WS, 0),
         Plus(Digit, 2), One({"deg"}, 2), Plus(Digit, 2), One({"'"}, 2), Plus(Digit, 2),
         One({"dq"}, 2), Plus(WS, 0)>> \o Lit(wKuzey)
coord_extract_coordinates(line) ==
    LET m == ReSearch(CoordLinePat, line)
    IN  IF m.ok
        THEN Group(CoordLinePat, line, m, 1) \o <<" ">> \o wDogu \o <<" ", "-", " ">>
             \o Group(CoordLinePat, line, m, 2) \o <<" ">> \o wKuzey
        ELSE NoneVal

lineHavza   == <<"2", "2", ".", "H", "a", "v", "z", "a", "s", "i">>
lineKm       == <<"2", "2", ".", "K", "M">>
lineLadik    == <<"D", "1", "4", "A", "0", "1", "1", " ", "L">>
lineTopluca  == <<"D", "2", "2", "A", "0", "9", "3", " ", "T">>
lineCoords   ==
    <<"3", "6", "deg", "1", "'", "1", "4", "dq", " ">> \o wDogu \o <<" ", "-", " ">>
    \o <<"4", "0", "deg", "5", "'", "3", "dq", " ">> \o wKuzey
lineOther    == <<"x">>

\* a station block: region line, station line, two lines skipped, coordinate line
StationBlock(station_line) == <<lineHavza, station_line, lineOther, lineOther, lineCoords>>

\* the lines of the pages a yearbook can have
CoordPages ==
    { <<>>,
      StationBlock(lineLadik),
      StationBlock(lineTopluca),
      <<lineOther>> \o StationBlock(lineLadik),
      StationBlock(lineLadik) \o StationBlock(lineTopluca),
      <<lineHavza, lineLadik, lineOther, lineOther, lineOther>>,
      <<lineKm, lineHavza, lineTopluca>>,
      <<lineHavza>> }

CoordPdfs == UNION {[1..n -> CoordPages] : n \in 1..MaxPages}

CoordPdfName == <<"dsi_2000.pdf">>
CoordHeader ==
    <<"file_name", "page", "region", "station_code", "station_name", "coordinates">>

\* the row csv.writer writes for a station found
CoordRow(station) ==
    <<station.file_name, NatStr(station.page), station.region, station.station_code,
      station.station_name, station.coordinates>>

CoordEarlierRow(station_line) ==
    CoordRow([file_name |-> CoordPdfName, page |-> 1, region |-> lineHavza,
              station_code |-> coord_extract_station_info(station_line)[1],
              station_name |-> coord_extract_station_info(station_line)[2],
              coordinates |-> coord_extract_coordinates(lineCoords)])

\* the output CSV before the run: missing, or written by an earlier run (every station
\* once)
CoordCsvs ==
    { [exists |-> FALSE, rows |-> <<>>],
      [exists |-> TRUE, rows |-> <<CoordHeader, CoordEarlierRow(lineLadik)>>],
      [exists |-> TRUE, rows |-> <<CoordHeader, CoordEarlierRow(lineTopluca)>>],
      [exists |-> TRUE,
       rows |-> <<CoordHeader, CoordEarlierRow(lineTopluca), CoordEarlierRow(lineLadik)>>] }

\* existing_stations: row[3] of every row after the header that has four cells
ExistingStations(csv) ==
    IF csv.exists THEN {csv.rows[k][4] : k \in {k \in 2..Len(csv.rows) : Len(csv.rows[k]) >= 4}}
    ELSE {}

RECURSIVE CoordScan(_, _, _, _, _)
\* the while loop over the lines of a page, from line i (counted from 1): new_stations
CoordScan(lines, i, existing_stations, page_num, new_stations) ==
    IF i > Len(lines) THEN new_stations
    ELSE LET line     == Strip(lines[i])
             info     == IF i + 1 <= Len(lines)
                         THEN coord_extract_station_info(Strip(lines[i + 1]))
                         ELSE <<NoneVal, NoneVal>>
             coordinates == IF i + 4 <= Len(lines)
                            THEN coord_extract_coordinates(Strip(lines[i + 4]))
                            ELSE NoneVal
             found    == /\ is_target_region(line)
                         /\ info[1] # NoneVal
                         /\ info[1] \notin existing_stations
                         /\ coordinates # NoneVal
             station  == [file_name |-> CoordPdfName, page |-> page_num, region |-> line,
                          station_code |-> info[1], station_name |-> info[2],
                          coordinates |-> coordinates]
         IN  CoordScan(lines, IF is_target_region(line) THEN i + 5 ELSE i + 1,
                       existing_stations, page_num,
                       IF found THEN Append(new_stations, station) ELSE new_stations)

InitCoord ==
    /\ script = "extract_dsi_2000_coordinates"
    /\ pc = "start"
    /\ text \in CoordPdfs
    /\ disk \in CoordCsvs
    /\ year = 2000
    /\ doc = "none"
    /\ page_count = 0
    /\ pno = 0
    /\ results = <<>>
    /\ stdout = <<>>
    /\ exc = None
    /\ fileno = 0
    /\ seen = {}
    /\ loaded = 0

\* process_pdf up to pdfplumber.open: the station codes of the CSV are read
CoordReadExisting ==
    /\ script = "extract_dsi_2000_coordinates" /\ pc = "start"
    /\ seen' = ExistingStations(disk)
    /\ doc' = "open"
    /\ page_count' = Len(text)
    /\ pno' = 1
    /\ pc' = "pages"
    /\ UNCHANGED <<script, year, text, results, disk, stdout, exc, fileno, loaded>>

\* one iteration of "for page_num, page in enumerate(pdf.pages, 1)"
CoordPage ==
    /\ script = "extract_dsi_2000_coordinates" /\ pc = "pages" /\ pno <= page_count
    /\ results' = CoordScan(text[pno], 1, seen, pno, results)
    /\ pno' = pno + 1
    /\ UNCHANGED <<script, pc, year, doc, page_count, text, disk, stdout, exc, fileno, seen,
                   loaded>>

\* after the page loop: the new stations are appended to the CSV, with the header first
\* when the file did not exist
CoordAppend ==
    /\ script = "extract_dsi_2000_coordinates" /\ pc = "pages" /\ pno > page_count
    /\ doc' = "closed"
    /\ disk' = IF results = <<>> THEN disk
               ELSE [exists |-> TRUE,
                     rows |-> (IF disk.exists THEN disk.rows ELSE <<CoordHeader>>)
                              \o [k \in 1..Len(results) |-> CoordRow(results[k])]]
    /\ pc' = "returned"
    /\ UNCHANGED <<script, year, page_count, pno, text, results, stdout, exc, fileno, seen,
                   loaded>>

NextCoord == CoordReadExisting \/ CoordPage \/ CoordAppend

SpecCoord == InitCoord /\ [][NextCoord]_vars

\* C24: process_pdf of the coordinate extractor avoids duplicates: after it returns, no
\* station_code occurs in more than one row of the output CSV, whether the station was
\* already in the CSV before the run or appears on several pages of the PDF.
C24_NoDuplicateStation ==
    (script = "extract_dsi_2000_coordinates" /\ pc = "returned" /\ disk.exists) =>
        \A j, k \in 2..Len(disk.rows) : disk.rows[j][4] = disk.rows[k][4] => j = k


(***************************************************************************)
(* lab3_era5_analysis.py: monthly_and_seasonal_stats adds the month and    *)
(* season columns and averages the wind speed by month and by season.      *)
(***************************************************************************)

\* wind speeds of the samples, in tenths of m/s
WindSpeeds == {25, 60}
\* the frames of up to MaxRows hourly samples: the month of "time" and the wind speed
WindFrames == UNION {[1..n -> [month : 1..12, wind_speed : WindSpeeds]] : n \in 1..MaxRows}

Season_nomod(month) == month \div 3 + 1

\* df["month"] % 12 // 3 + 1
Season(month) == (month % 12) \div 3 + 1

RECURSIVE SumOver(_, _)
SumOver(df, I) ==
    IF I = {} THEN 0
    ELSE LET i == CHOOSE i \in I : TRUE IN df[i].wind_speed + SumOver(df, I \ {i})

\* df.groupby(col)["wind_speed"].mean(): for each key present in the column, the sum and
\* the count of its rows
GroupMean(df, col) ==
    LET keys == {df[i][col] : i \in DOMAIN df}
    IN  [k \in keys |->
            LET I == {i \in DOMAIN df : df[i][col] = k}
            IN  [sum |-> SumOver(df, I), count |-> Cardinality(I)]]

monthly_and_seasonal_stats(df) ==
    LET withSeason == [i \in DOMAIN df |->
                          [month |-> df[i].month, season |-> Season(df[i].month),
                           wind_speed |-> df[i].wind_speed]]
    IN  [df |-> withSeason,
         monthly_avg |-> GroupMean(withSeason, "month"),
         seasonal_avg |-> GroupMean(withSeason, "season")]

InitSeason ==
    /\ script = "lab3_era5_analysis"
    /\ pc = "loaded"
    /\ text \in WindFrames
    /\ year = 0
    /\ doc = "none"
    /\ page_count = 0
    /\ pno = 0
    /\ results = <<>>
    /\ disk = <<>>
    /\ stdout = <<>>
    /\ exc = None
    /\ fileno = 0
    /\ seen = {}
    /\ loaded = 0

\* monthly_and_seasonal_stats(df, city_name)
SeasonStats ==
    /\ script = "lab3_era5_analysis" /\ pc = "loaded"
    /\ results' = monthly_and_seasonal_stats(text)
    /\ pc' = "returned"
    /\ UNCHANGED <<script, year, doc, page_count, pno, text, disk, stdout, exc, fileno, seen,
                   loaded>>

NextSeason == SeasonStats

SpecSeason == InitSeason /\ [][NextSeason]_vars

\* C25: for every month number 1 to 12 the season computed as month % 12 // 3 + 1 is 1 for
\* December, January and February, 2 for March to May, 3 for June to August and 4 for
\* September to November.
C25_SeasonOfMonth ==
    (script = "lab3_era5_analysis" /\ pc = "returned") =>
        \A i \in DOMAIN results.df :
            LET month  == text[i].month
                season == results.df[i].season
            IN  /\ month \in {12, 1, 2} => season = 1
                /\ month \in 3..5 => season = 2
                /\ month \in 6..8 => season = 3
                /\ month \in 9..11 => season = 4

\* a frame with a December and a September sample has been given its seasons, and the
\* winter average is taken over the December sample
C25_Witness ==
    /\ script = "lab3_era5_analysis" /\ pc = "returned"
    /\ \E i, j \in DOMAIN text :
        /\ text[i].month = 12 /\ results.df[i].season = 1
        /\ text[j].month = 9 /\ results.df[j].season = 4
    /\ 1 \in DOMAIN results.seasonal_avg


(***************************************************************************)
(* dsi_streamflow_full_reader.py: class DSIStreamflowFullReader, run twice *)
(* over the same PDF directory and output path.                            *)
(***************************************************************************)

RerunOutput == "dsi_2000_2020_rowwise_extracted.csv"

\* the first columns of the header of _initialize_csv; the columns after station_code are
\* filled by extract_header_info, extract_flow_tables and extract_footer_data from the
\* lines of the page alone
RerunHeaders == <<"file", "year", "station_code">>

\* pages: no text, one line only, a target station on line 2, another station on line 2
RerunPageSet ==
    { <<>>, <<lineStationA>>, <<lineHavza, lineStationA>>, <<lineHavza, lineStationB>>,
      <<lineHavza, lineStationOther>> }

\* the PDF directory, in the order of sorted(pdf_files): dsi_2019.pdf with up to MaxPages
\* pages and dsi_2020.pdf with one page
RerunDirectories ==
    {<<[year |-> 2019, pages |-> p], [year |-> 2020, pages |-> <<q>>]>> :
        p \in UNION {[1..n -> RerunPageSet] : n \in 1..MaxPages},
        q \in {<<lineHavza, lineStationA>>, <<lineHavza, lineStationOther>>}}

\* is_target_station_page(lines): the first target station code of line 2, or None
is_target_station_page(lines) ==
    IF Len(lines) < 2 THEN NoneVal
    ELSE LET station_matches == FindAll(StationCodePat, Strip(lines[2]))
             hits == {k \in 1..Len(station_matches) : station_matches[k] \in target_stations}
         IN  IF hits = {} THEN NoneVal ELSE station_matches[SetMin(hits)]

\* extract_station_data_from_page: the row of the page, or None for a page without text,
\* without a target station, or with a (station, year) already processed
extract_station_data_from_page(pdf, page_num, processed_combinations) ==
    LET lines        == pdf.pages[page_num]
        station_code == is_target_station_page(lines)
    IN  IF lines = <<>> \/ station_code = NoneVal THEN NoneVal
        ELSE IF <<station_code, pdf.year>> \in processed_combinations THEN NoneVal
        ELSE [file |-> PdfName(pdf.year), year |-> pdf.year, station_code |-> station_code]

RECURSIVE RerunPagesFrom(_, _, _)
\* the page loop of process_pdf from page page_num on: the rows appended and the
\* combinations processed
RerunPagesFrom(pdf, page_num, st) ==
    IF page_num > Len(pdf.pages) THEN st
    ELSE LET station_data == extract_station_data_from_page(pdf, page_num, st.processed)
         IN  RerunPagesFrom(pdf, page_num + 1,
                IF station_data = NoneVal THEN st
                ELSE [rows |-> Append(st.rows, station_data),
                      processed |-> st.processed \cup {<<station_data.station_code, pdf.year>>}])

InitRerun ==
    /\ script = "dsi_streamflow_full_reader"
    /\ pc = "init"
    /\ text \in RerunDirectories
    /\ disk = <<>>
    /\ year = 0
    /\ doc = "none"
    /\ page_count = 0
    /\ pno = 0
    /\ results = <<>>
    /\ stdout = <<>>
    /\ exc = None
    /\ fileno = 0
    /\ seen = {}
    /\ loaded = 1

\* DSIStreamflowFullReader(pdf_directory, output_csv): processed_combinations starts empty
\* and _initialize_csv writes the header if the file does not exist
RerunConstruct ==
    /\ script = "dsi_streamflow_full_reader" /\ pc = "init"
    /\ seen' = {}
    /\ disk' = IF RerunOutput \in DOMAIN disk THEN disk
               ELSE (RerunOutput :> [header |-> RerunHeaders, rows |-> <<>>]) @@ disk
    /\ fileno' = 1
    /\ pc' = "files"
    /\ UNCHANGED <<script, year, doc, page_count, pno, text, results, stdout, exc, loaded>>

\* process_all_pdfs: process_pdf of the next file of sorted(pdf_files)
RerunProcessPdf ==
    /\ script = "dsi_streamflow_full_reader" /\ pc = "files" /\ fileno <= Len(text)
    /\ LET st == RerunPagesFrom(text[fileno], 1,
                                [rows |-> disk[RerunOutput].rows, processed |-> seen])
       IN  /\ disk' = [disk EXCEPT ![RerunOutput].rows = st.rows]
           /\ seen' = st.processed
    /\ year' = text[fileno].year
    /\ page_count' = Len(text[fileno].pages)
    /\ fileno' = fileno + 1
    /\ UNCHANGED <<script, pc, doc, pno, text, results, stdout, exc, loaded>>

\* process_all_pdfs returns and the script ends
RerunDone ==
    /\ script = "dsi_streamflow_full_reader" /\ pc = "files" /\ fileno > Len(text)
    /\ pc' = "done"
    /\ UNCHANGED <<script, year, doc, page_count, pno, text, results, disk, stdout, exc, fileno,
                   seen, loaded>>

\* the script is started a second time: results keeps the CSV the first run left
RerunAgain ==
    /\ script = "dsi_streamflow_full_reader" /\ pc = "done" /\ loaded = 1
    /\ results' = disk[RerunOutput]
    /\ loaded' = 2
    /\ pc' = "init"
    /\ UNCHANGED <<script, year, doc, page_count, pno, text, disk, stdout, exc, fileno, seen>>

NextRerun == RerunConstruct \/ RerunProcessPdf \/ RerunDone \/ RerunAgain

SpecRerun == InitRerun /\ [][NextRerun]_vars

\* C28: running the extractor a second time over the same PDF directory and the same
\* output path leaves the output CSV equal to the CSV after the first run: a re-run adds
\* no rows.
C28_RerunAddsNoRows ==
    (script = "dsi_streamflow_full_reader" /\ pc = "done" /\ loaded = 2) =>
        disk[RerunOutput] = results


(***************************************************************************)
(* enhanced_extract.py: extract_catchments_enhanced                        *)
(***************************************************************************)

\* [DE]\d{2}A\d{3} under re.IGNORECASE, as group 1
EnhCodeItems ==
    <<One(IgnoreCase({"D", "E"}), 1), Rep(Digit, 2, 1), One(IgnoreCase({"A"}), 1),
      Rep(Digit, 3, 1)>>

\* \w of a regular expression
WordChar == Digit \cup UpperLetter \cup LowerLetter \cup {"_"}

\* re.search of a pattern that starts with \b and a word character
BoundarySearch(pat, s) ==
    Leftmost({<<j, MatchFrom(pat, 1, s, j)>> :
                j \in {j \in 1..Len(s) : j = 1 \/ s[j - 1] \notin WordChar}})

\* the three searches for a station code, in the order of the list "patterns"
EnhCodeMatches(line) ==
    LET p1 == EnhCodeItems \o <<One(WS, 0)>>
        m1 == ReMatch(p1, line)
        m2 == BoundarySearch(p1, line)
        m3 == ReSearch(EnhCodeItems, line)
    IN  <<IF m1.ok THEN Upper(Group(p1, line, m1, 1)) ELSE <<>>,
          IF m2.ok THEN Upper(Group(p1, line, m2, 1)) ELSE <<>>,
          IF m3.ok THEN Upper(Group(EnhCodeItems, line, m3, 1)) ELSE <<>>>>

\* code: the group of the first pattern whose match is a target station, or <<>> for None
EnhCode(line) ==
    LET cs   == EnhCodeMatches(line)
        hits == {k \in 1..3 : cs[k] \in TARGET_STATIONS}
    IN  IF hits = {} THEN <<>> ELSE cs[SetMin(hits)]

EnhKeywords ==
    {wYAGIS_ALANI, wYAGIS_ascii, <<"H", "A", "V", "Z", "A", " ", "A", "L", "A", "N", "I">>,
     <<"C", "A", "T", "C", "H", "M", "E", "N", "T">>, <<"H", "A", "V", "Z", "A">>}

\* the four number patterns, flags=re.I
EnhNumberPats ==
    <<CatchAreaPat,
      LitI(<<"A", "L", "A", "N", "I">>)
          \o <<Star(WS, 0), One({":"}, 0), Star(WS, 0), Plus(Digit \cup {".", ","}, 1)>>,
      <<Plus(Digit \cup {".", ","}, 1), Star(WS, 0)>> \o LitI(<<"k", "m">>)
          \o <<One({"sup2", "2"}, 0)>>,
      <<Plus(Digit \cup {".", ","}, 1)>>>>

\* the value of a keyword line: clean_num of the group of the first pattern that matches
\* and whose group clean_num accepts, or None
EnhLineValue(line) ==
    LET vals == [k \in 1..4 |->
                    LET m == ReSearch(EnhNumberPats[k], line)
                    IN  IF m.ok THEN catch_clean_num(Group(EnhNumberPats[k], line, m, 1))
                        ELSE NoneVal]
        good == {k \in 1..4 : IsFloat(vals[k])}
    IN  IF good = {} THEN NoneVal ELSE vals[SetMin(good)]

\* the search from line i: the value of the first line of i..min(i+20, len)-1 that holds a
\* keyword, or None
EnhWindowValue(lines, i) ==
    LET js == {j \in i..Min(i + 19, Len(lines)) :
                  \E keyword \in EnhKeywords : Contains(Upper(lines[j]), keyword)}
    IN  IF js = {} THEN NoneVal ELSE EnhLineValue(lines[SetMin(js)])

RECURSIVE EnhScanLines(_, _, _, _)
\* the loop over the lines of page p from line i on: results and found_codes
EnhScanLines(lines, i, p, st) ==
    IF i > Len(lines) THEN st
    ELSE LET code == EnhCode(lines[i])
             val  == EnhWindowValue(lines, i)
         IN  EnhScanLines(lines, i + 1, p,
                IF code = <<>> \/ code \in st.found_codes THEN st
                ELSE [found_codes |-> st.found_codes \cup {code},
                      results |-> IF IsFloat(val)
                                  THEN Append(st.results,
                                              [station_code |-> code, catchment_area_km2 |-> val,
                                               page |-> p + 1])
                                  ELSE st.results])

EnhPages == PagesOver({lineStationA, lineStationB, lineArea, lineAreaThousands})

InitEnh ==
    /\ script = "enhanced_extract"
    /\ pc = "main"
    /\ year = 2009
    /\ doc = "none"
    /\ page_count = 0
    /\ pno = 0
    /\ text = <<>>
    /\ results = <<>>
    /\ disk = <<>>
    /\ stdout = <<>>
    /\ exc = None
    /\ fileno = 0
    /\ seen = {}
    /\ loaded = 0

\* extract_catchments_enhanced: fitz.open, results = [], found_codes = set()
EnhOpen ==
    /\ script = "enhanced_extract" /\ pc = "main"
    /\ \E n \in 1..MaxPages : page_count' = n
    /\ doc' = "open"
    /\ pno' = 0
    /\ results' = <<>>
    /\ seen' = {}
    /\ pc' = "pages"
    /\ UNCHANGED <<script, year, text, disk, stdout, exc, fileno, loaded>>

\* one iteration of "for pno in range(doc.page_count)"
EnhPage ==
    /\ script = "enhanced_extract" /\ pc = "pages" /\ pno < page_count
    /\ \E t \in EnhPages :
        LET st == EnhScanLines(StrippedLines(t), 1, pno,
                               [found_codes |-> seen, results |-> results])
        IN  /\ text' = t
            /\ results' = st.results
            /\ seen' = st.found_codes
    /\ pno' = pno + 1
    /\ UNCHANGED <<script, pc, year, doc, page_count, disk, stdout, exc, fileno, loaded>>

\* doc.close() and return pd.DataFrame(results)
EnhClose ==
    /\ script = "enhanced_extract" /\ pc = "pages" /\ pno = page_count
    /\ doc' = "closed"
    /\ pc' = "returned"
    /\ UNCHANGED <<script, year, page_count, pno, text, results, disk, stdout, exc, fileno,
                   seen, loaded>>

NextEnh == EnhOpen \/ EnhPage \/ EnhClose

SpecEnh == InitEnh /\ [][NextEnh]_vars

\* a line of the page holds the code, and the search from that line gives a number
EnhHasArea(lines, code) ==
    \E i \in 1..Len(lines) : EnhCode(lines[i]) = code /\ IsFloat(EnhWindowValue(lines, i))

\* C29: if on some page a target station's code is followed within the search window by a
\* catchment-area line with a parsable number, the result contains a catchment record for
\* that station, even when the code was first seen earlier at a place with no catchment
\* line nearby.
C29_AreaAfterCodeRecorded ==
    (script = "enhanced_extract" /\ pc = "pages" /\ pno >= 1) =>
        \A code \in {codeD22A093, codeE22A065} :
            EnhHasArea(StrippedLines(text), code) =>
                \E k \in 1..Len(results) : results[k].station_code = code


(***************************************************************************)
(* extract_all_years.py: catchment_data_km2.py is run once for every year  *)
(***************************************************************************)

\* years = [str(year) for year in range(2005, 2020)]
AllYears == [k \in 1..15 |-> NatStr(2004 + k)]

InitAllYears ==
    /\ script = "extract_all_years"
    /\ pc = "loop"
    /\ fileno = 1
    /\ loaded = 0
    /\ results = <<>>
    /\ year = 0
    /\ doc = "none"
    /\ page_count = 0
    /\ pno = 0
    /\ text = <<>>
    /\ disk = <<>>
    /\ stdout = <<>>
    /\ exc = None
    /\ seen = {}

YearSuccess_and_failed ==
    /\ script = "extract_all_years" /\ pc = "loop" /\ fileno <= Len(AllYears)
    /\ loaded' = loaded + 1
    /\ results' = Append(results, AllYears[fileno])
    /\ fileno' = fileno + 1
    /\ UNCHANGED <<script, pc, year, doc, page_count, pno, text, disk, stdout, exc, seen>>

\* the loop body for a year whose run returns 0 and prints [DONE]: loaded is the counter
\* "successful"
YearSuccess ==
    /\ script = "extract_all_years" /\ pc = "loop" /\ fileno <= Len(AllYears)
    /\ loaded' = loaded + 1
    /\ fileno' = fileno + 1
    /\ UNCHANGED <<script, pc, year, doc, page_count, pno, text, results, disk, stdout, exc,
                   seen>>

\* the loop body for a year whose run returns 0 without [DONE], returns another code, or
\* whose subprocess.run raises: results is the list "failed"
YearFailed ==
    /\ script = "extract_all_years" /\ pc = "loop" /\ fileno <= Len(AllYears)
    /\ \E outcome \in {"WARN No data found", "ERROR", "EXCEPTION"} :
        results' = Append(results, AllYears[fileno])
    /\ fileno' = fileno + 1
    /\ UNCHANGED <<script, pc, year, doc, page_count, pno, text, disk, stdout, exc, seen,
                   loaded>>

\* the summary printed after the loop
AllYearsSummary ==
    /\ script = "extract_all_years" /\ pc = "loop" /\ fileno > Len(AllYears)
    /\ pc' = "summary"
    /\ UNCHANGED <<script, year, doc, page_count, pno, text, results, disk, stdout, exc, fileno,
                   seen, loaded>>

NextAllYears == YearSuccess \/ YearFailed \/ AllYearsSummary

SpecAllYears == InitAllYears /\ [][NextAllYears]_vars

\* C30: extract_all_years classifies each of the 15 years 2005 to 2019 exactly once: when
\* the loop ends, the successful count plus the number of failed years equals 15 and no
\* year is listed as failed twice.
C30_EachYearOnce ==
    (script = "extract_all_years" /\ pc = "summary") =>
        /\ loaded + Len(results) = 15
        /\ \A j, k \in 1..Len(results) : results[j] = results[k] => j = k
        /\ \A k \in 1..Len(results) : \E n \in 2005..2019 : results[k] = NatStr(n)

\* the loop has ended with years of both kinds: 2005 and 2019 failed, others succeeded
C30_Witness ==
    /\ script = "extract_all_years" /\ pc = "summary"
    /\ loaded >= 1
    /\ Len(results) >= 2
    /\ results[1] = NatStr(2005)
    /\ results[Len(results)] = NatStr(2019)

=============================================================================
